---- MODULE Spec2Model ----
(***************************************************************************)
(* Per-account request reliability and caching layer of the Google         *)
(* multi-account MCP broker: the token-bucket throttle (TokenBucket), the  *)
(* TTL LRU response cache (LRUCache, withCache), the retry controller      *)
(* (withRetry) and the per-account backoff state tracker.                  *)
(*                                                                         *)
(* Time is in milliseconds.  Token counts are JavaScript numbers, modelled  *)
(* as IEEE 754 doubles with their rounding.                                *)
(***************************************************************************)
EXTENDS Integers, Sequences, FiniteSets, TLC

\* ------------------------------------------------------------------ bounds
\* Number of 250 ms clock steps the throttle model explores.
MaxBucketSteps == 3
\* Number of 10 ms clock steps a caller waiting for tokens is followed for.
MaxWaitSteps == 11
\* Number of requests GmailClient sends to the Gmail API.
MaxRequests == 3
\* Largest maxSize an LRUCache is constructed with.
MaxCacheSize == 2
\* Cap on the sum of the statistics counters (resetStats brings them back to 0).
MaxStat == 1
\* Largest maxRetries a caller passes to withRetry.
MaxRetriesOption == 2
\* Cap on an account's consecutiveErrors.
MaxErrors == 6
\* Largest number used as a parameter value in a cache key.
MaxParamValue == 2
\* Number of drafts Gmail creates.
MaxDrafts == 2

\* --------------------------------------------------------------- constants
\* Milliseconds per second.
MsPerSecond == 1000

VARIABLES
    now,        \* Date.now()
    ret,        \* what the last completed call returned
    buckets,    \* TokenBucket.buckets : accountId -> BucketState
    config,     \* TokenBucket.config
    waiters,    \* waitAndConsume calls suspended in setTimeout
    promised,   \* history: the cost and the instant of the wait time
                \* getWaitTime gave for an account, until the next call
                \* on the account
    drain,      \* history: the unit-cost tryConsume calls on a bucket
    admitted,   \* history: per account, when waitAndConsume first referred
                \* to its bucket and the total cost, in thousandths of a
                \* token, of the waitAndConsume calls that have returned
    cache,      \* LRUCache.cache : the Map's entries in insertion order
    stats,      \* LRUCache.stats
    cacheConfig,\* LRUCache.config
    hung,       \* the event loop is stuck inside a call that never returns
    fetching,   \* withCache calls awaiting their operation
    recency,    \* history: stored keys, least recently accessed first
    lastSet,    \* history: time, ttl and value of the set that stored each key
    fetched,    \* history: value a withCache miss stored under a key, while
                \* that entry has been neither removed nor overwritten
    stale,      \* history: the keys whose entry was stored by a withCache
                \* miss that was awaiting its operation when the key was
                \* invalidated
    rpc,        \* withRetry: where the call is
    opts,       \* withRetry: opts, the defaults merged with the caller's options
    attempt,    \* withRetry: the loop variable
    lastError,  \* withRetry: lastError
    calls,      \* history: errors thrown by the invocations of the operation
    retryLog,   \* history: arguments of the onRetry calls
    slept,      \* history: delays slept
    settled,    \* withRetry: how the returned promise settled
    accountRateLimitState, \* accountId -> RateLimitState
    failures,   \* history: failures recorded per account since its last
                \* recorded success or clearRateLimitState
    tool,       \* the tool handler awaiting a GmailClient call
    gmailDrafts,\* Gmail: ids of the drafts that exist
    lastDraftId,\* Gmail: id of the draft created last
    gmailSent,  \* history: the drafts.send calls Gmail performed
    client,     \* the GmailClient method awaiting the Gmail API
    gmailRequests \* history: the requests GmailClient sent to the Gmail API

throttleVars == <<buckets, config, waiters, promised, drain, admitted>>

cacheVars == <<cache, stats, cacheConfig, hung, fetching, recency, lastSet, fetched,
               stale>>

retryVars == <<rpc, opts, attempt, lastError, calls, retryLog, slept, settled>>

backoffVars == <<accountRateLimitState, failures>>

serverVars == <<tool, gmailDrafts, lastDraftId, gmailSent>>

clientVars == <<client, gmailRequests>>

vars == <<now, ret, throttleVars, cacheVars, retryVars, backoffVars, serverVars,
          clientVars>>

nonThrottleVars == <<cacheVars, retryVars, backoffVars, serverVars, clientVars>>
nonCacheVars == <<throttleVars, retryVars, backoffVars, serverVars, clientVars>>
nonRetryVars == <<throttleVars, cacheVars, backoffVars, serverVars, clientVars>>
nonBackoffVars == <<throttleVars, cacheVars, retryVars, serverVars, clientVars>>
nonServerVars == <<throttleVars, cacheVars, retryVars, backoffVars, clientVars>>
nonClientVars == <<throttleVars, cacheVars, retryVars, backoffVars, serverVars>>

Min(a, b) == IF a <= b THEN a ELSE b
Max(a, b) == IF a >= b THEN a ELSE b

\* ------------------------------------------------- IEEE 754 double arithmetic
\* The token arithmetic of the bucket is done on JavaScript numbers: doubles,
\* whose results are rounded to 53 significant bits, ties to even.  A natural
\* number is a sequence of 15-bit limbs, least significant first, and a
\* double is [m, e, neg], standing for m * 2^e (negated when neg), with m = 0
\* or 2^52 <= m < 2^53.  Only a subtraction yields a negative double, and the
\* other operations are applied to non-negative ones.
LimbBits == 15
Limb == 32768
SignificandBits == 53

RECURSIVE Pow(_, _)
Pow(b, e) == IF e <= 0 THEN 1 ELSE b * Pow(b, e - 1)

RECURSIVE BigTrim(_)
BigTrim(a) ==
    IF a # <<>> /\ a[Len(a)] = 0 THEN BigTrim(SubSeq(a, 1, Len(a) - 1)) ELSE a

RECURSIVE BigFromInt(_)
BigFromInt(n) == IF n = 0 THEN <<>> ELSE <<n % Limb>> \o BigFromInt(n \div Limb)

RECURSIVE BigToInt(_)
BigToInt(a) == IF a = <<>> THEN 0 ELSE a[1] + Limb * BigToInt(Tail(a))

\* a * k + carry, for 0 <= k <= Limb.
RECURSIVE BigMulSmall(_, _, _)
BigMulSmall(a, k, carry) ==
    IF a = <<>>
    THEN BigFromInt(carry)
    ELSE LET p == a[1] * k + carry
         IN  <<p % Limb>> \o BigMulSmall(Tail(a), k, p \div Limb)

\* Quotient (untrimmed) and remainder of a by d, for 0 < d <= Limb.
RECURSIVE BigDivSmall(_, _)
BigDivSmall(a, d) ==
    IF a = <<>>
    THEN [q |-> <<>>, r |-> 0]
    ELSE LET high == BigDivSmall(Tail(a), d)
             cur == high.r * Limb + a[1]
         IN  [q |-> <<cur \div d>> \o high.q, r |-> cur % d]

RECURSIVE BigAdd(_, _, _)
BigAdd(a, b, carry) ==
    IF a = <<>> /\ b = <<>>
    THEN BigFromInt(carry)
    ELSE LET x == IF a = <<>> THEN 0 ELSE a[1]
             y == IF b = <<>> THEN 0 ELSE b[1]
             s == x + y + carry
         IN  <<s % Limb>> \o BigAdd(IF a = <<>> THEN a ELSE Tail(a),
                                    IF b = <<>> THEN b ELSE Tail(b), s \div Limb)

\* a - b - borrow (untrimmed), for a >= b + borrow.
RECURSIVE BigSub(_, _, _)
BigSub(a, b, borrow) ==
    IF a = <<>>
    THEN <<>>
    ELSE LET y == IF b = <<>> THEN 0 ELSE b[1]
             s == a[1] - y - borrow
         IN  <<s % Limb>> \o BigSub(Tail(a), IF b = <<>> THEN b ELSE Tail(b),
                                    IF s < 0 THEN 1 ELSE 0)

\* a >= b, for trimmed a and b.
RECURSIVE BigGeq(_, _)
BigGeq(a, b) ==
    IF Len(a) # Len(b) THEN Len(a) > Len(b)
    ELSE IF a = <<>> THEN TRUE
    ELSE IF a[Len(a)] # b[Len(b)] THEN a[Len(a)] > b[Len(b)]
    ELSE BigGeq(BigTrim(SubSeq(a, 1, Len(a) - 1)), BigTrim(SubSeq(b, 1, Len(b) - 1)))

\* Number of significant bits.
RECURSIVE BitLenSmall(_)
BitLenSmall(n) == IF n = 0 THEN 0 ELSE 1 + BitLenSmall(n \div 2)
BitLen(a) ==
    IF a = <<>> THEN 0 ELSE LimbBits * (Len(a) - 1) + BitLenSmall(a[Len(a)])

\* a * 2^s.
RECURSIVE ShiftLeft(_, _)
ShiftLeft(a, s) ==
    IF s = 0 \/ a = <<>> THEN a
    ELSE IF s >= LimbBits THEN ShiftLeft(<<0>> \o a, s - LimbBits)
    ELSE BigTrim(BigMulSmall(a, Pow(2, s), 0))

\* floor(a / 2^s), and whether a nonzero remainder (or `sticky`) was dropped.
RECURSIVE ShiftRight(_, _, _)
ShiftRight(a, s, sticky) ==
    IF s = 0 \/ a = <<>> THEN [q |-> a, sticky |-> sticky]
    ELSE IF s >= LimbBits THEN ShiftRight(Tail(a), s - LimbBits, sticky \/ a[1] # 0)
    ELSE LET d == BigDivSmall(a, Pow(2, s))
         IN  [q |-> BigTrim(d.q), sticky |-> sticky \/ d.r # 0]

Zero == [m |-> <<>>, e |-> 0, neg |-> FALSE]

\* The double nearest to n * 2^e (+ a positive fraction of 2^e when `sticky`),
\* ties to even.
RoundToDouble(n, e, sticky) ==
    LET len == BitLen(n) IN
    IF len = 0 THEN Zero
    ELSE IF len <= SignificandBits
    THEN [m |-> ShiftLeft(n, SignificandBits - len), e |-> e - (SignificandBits - len),
          neg |-> FALSE]
    ELSE LET drop == len - SignificandBits
             most == ShiftRight(n, drop - 1, sticky)
             guard == most.q[1] % 2 = 1
             kept == ShiftRight(most.q, 1, FALSE).q
             odd == kept[1] % 2 = 1
             up == guard /\ (most.sticky \/ odd)
             m == IF up THEN BigTrim(BigAdd(kept, <<1>>, 0)) ELSE kept
         IN  IF BitLen(m) > SignificandBits
             THEN [m |-> ShiftRight(m, 1, FALSE).q, e |-> e + drop + 1, neg |-> FALSE]
             ELSE [m |-> m, e |-> e + drop, neg |-> FALSE]

\* The double of an integer below 2^31.
ToDouble(n) == RoundToDouble(BigFromInt(n), 0, FALSE)

\* x * k and x / k in double arithmetic, for an integer 0 < k <= 2^15.
MulDouble(x, k) == RoundToDouble(BigTrim(BigMulSmall(x.m, k, 0)), x.e, FALSE)
DivDouble(x, k) ==
    LET d == BigDivSmall(ShiftLeft(x.m, 2 * LimbBits), k)
    IN  RoundToDouble(BigTrim(d.q), x.e - 2 * LimbBits, d.r # 0)

\* The significands of x and y over their common (smaller) exponent.
Aligned(x, y) ==
    LET e == IF x.m = <<>> THEN y.e ELSE IF y.m = <<>> THEN x.e
             ELSE IF x.e <= y.e THEN x.e ELSE y.e
    IN  [x |-> ShiftLeft(x.m, IF x.m = <<>> THEN 0 ELSE x.e - e),
         y |-> ShiftLeft(y.m, IF y.m = <<>> THEN 0 ELSE y.e - e), e |-> e]

AddDouble(x, y) ==
    LET a == Aligned(x, y) IN RoundToDouble(BigTrim(BigAdd(a.x, a.y, 0)), a.e, FALSE)
\* x >= y.
GeqDouble(x, y) == LET a == Aligned(x, y) IN BigGeq(a.x, a.y)
\* x - y.
SubDouble(x, y) ==
    LET a == Aligned(x, y) IN
    IF BigGeq(a.x, a.y)
    THEN RoundToDouble(BigTrim(BigSub(a.x, a.y, 0)), a.e, FALSE)
    ELSE [RoundToDouble(BigTrim(BigSub(a.y, a.x, 0)), a.e, FALSE) EXCEPT !.neg = TRUE]
\* Math.min(x, y).
MinDouble(x, y) == IF GeqDouble(x, y) THEN y ELSE x
\* Math.max(0, x).
MaxZeroDouble(x) == IF x.neg THEN Zero ELSE x

\* Math.ceil(x), for 0 <= x < 2^31.
CeilDouble(x) ==
    IF x.m = <<>> THEN 0
    ELSE IF x.e >= 0 THEN BigToInt(ShiftLeft(x.m, x.e))
    ELSE LET d == ShiftRight(x.m, -x.e, FALSE)
         IN  BigToInt(d.q) + (IF d.sticky THEN 1 ELSE 0)

NoRet == [op |-> "none"]
\* Stands for undefined or null where the code expects a number.
Undefined == -1

\* ================================================================ throttle
Accounts == {"A", "B"}
\* Concurrent callers of waitAndConsume; each has at most one call in flight.
Callers == {"c1", "c2"}
Idle == [accountId |-> "", cost |-> Zero, wakeAt |-> -1]
\* The cost of one request.
One == ToDouble(1)
\* Costs a caller may pass: 0, 1 and 1.5 tokens.
Costs == {Zero, One, DivDouble(ToDouble(3), 2)}
\* Clock advances of the throttle model (ms).
BucketTicks == {250, 500}
\* Configurations the bucket may be constructed with.
ThrottleConfigs == [tokensPerSecond : {2}, bucketSize : {1, 2}]

\* No wait time is outstanding for the account.
NoPromise == [cost |-> Zero, at |-> -1]
\* The account's bucket does not exist.
NoDrain == [phase |-> "none", at |-> -1, elapsed |-> 0, granted |-> 0, denied |-> FALSE]

\* The bucket map after getBucket(accountId): a missing bucket is created full.
GetBucket(bs, accountId) ==
    IF accountId \in DOMAIN bs
    THEN bs
    ELSE bs @@ (accountId :> [tokens |-> ToDouble(config.bucketSize),
                              lastRefill |-> now])

\* newTokens of refillTokens: elapsed seconds * tokensPerSecond.
NewTokens(bucket) ==
    LET elapsed == DivDouble(ToDouble(now - bucket.lastRefill), MsPerSecond)
    IN  MulDouble(elapsed, config.tokensPerSecond)

\* A mutant of refillTokens that forgets the cap.
RefillTokensUncapped(bucket) ==
    [tokens |-> AddDouble(bucket.tokens, NewTokens(bucket)),
     lastRefill |-> now]

\* refillTokens: add the new tokens, capped at bucketSize.
RefillTokens(bucket) ==
    [tokens |-> MinDouble(AddDouble(bucket.tokens, NewTokens(bucket)),
                          ToDouble(config.bucketSize)),
     lastRefill |-> now]

\* The refilled bucket of an account, as every operation first computes it.
Refilled(accountId) == RefillTokens(GetBucket(buckets, accountId)[accountId])

\* History of the unit-cost tryConsume calls on a bucket since it was created:
\* "draining" while no time has passed since its creation, "refilling" at the
\* first later instant when all bucketSize calls had been granted before, and
\* "off" once anything else has happened to the bucket.
DrainAfter(accountId, unit, ok) ==
    LET d == IF accountId \in DOMAIN buckets
             THEN drain[accountId]
             ELSE [NoDrain EXCEPT !.phase = "draining", !.at = now]
        count == [d EXCEPT !.granted = IF ok THEN @ + 1 ELSE @,
                           !.denied = @ \/ ~ok]
        off == [NoDrain EXCEPT !.phase = "off"]
    IN  [drain EXCEPT ![accountId] =
            IF ~unit \/ d.phase = "off" THEN off
            ELSE IF d.at = now THEN count
            ELSE IF d.phase = "draining" /\ d.granted = config.bucketSize
            THEN [phase |-> "refilling", at |-> now, elapsed |-> now - d.at,
                  granted |-> IF ok THEN 1 ELSE 0, denied |-> ~ok]
            ELSE off]

\* The histories stop following an account.
Untracked(accountId) ==
    /\ promised' = [promised EXCEPT ![accountId] = NoPromise]
    /\ drain' = [drain EXCEPT ![accountId] = [NoDrain EXCEPT !.phase = "off"]]

\* A mutant of tryConsume that takes what tokens there are when they do not
\* cover the cost.
TryConsumeBucketPartial(accountId, cost) ==
    LET bucket == Refilled(accountId) IN
    /\ buckets' = [GetBucket(buckets, accountId) EXCEPT
                      ![accountId] = [bucket EXCEPT !.tokens =
                          MaxZeroDouble(SubDouble(@, cost))]]
    /\ ret' = [op |-> "tryConsume", key |-> accountId,
               value |-> GeqDouble(bucket.tokens, cost)]
    /\ UNCHANGED <<now, config, waiters, admitted, nonThrottleVars>>

\* tryConsume, leaving the histories open.
TryConsumeBucket(accountId, cost) ==
    LET bucket == Refilled(accountId) IN
    /\ IF GeqDouble(bucket.tokens, cost)
       THEN /\ buckets' = [GetBucket(buckets, accountId) EXCEPT
                              ![accountId] = [bucket EXCEPT !.tokens = SubDouble(@, cost)]]
            /\ ret' = [op |-> "tryConsume", key |-> accountId,
                       value |-> TRUE]
       ELSE /\ buckets' = [GetBucket(buckets, accountId) EXCEPT ![accountId] = bucket]
            /\ ret' = [op |-> "tryConsume", key |-> accountId,
                       value |-> FALSE]
    /\ UNCHANGED <<now, config, waiters, admitted, nonThrottleVars>>

TryConsume(accountId, cost) ==
    /\ TryConsumeBucket(accountId, cost)
    /\ Untracked(accountId)

\* tryConsume of a caller whose history is kept.
TryConsumeTracked(accountId, cost) ==
    /\ TryConsumeBucket(accountId, cost)
    /\ promised' = [promised EXCEPT ![accountId] = NoPromise]
    /\ drain' = DrainAfter(accountId, cost = One, ret'.value)

\* The number getWaitTime returns for a refilled bucket.
WaitTime(bucket, cost) ==
    IF GeqDouble(bucket.tokens, cost)
    THEN 0
    ELSE LET tokensNeeded == SubDouble(cost, bucket.tokens)
             waitSeconds == DivDouble(tokensNeeded, config.tokensPerSecond)
         IN  CeilDouble(MulDouble(waitSeconds, MsPerSecond))

\* getWaitTime, leaving the histories open.
GetWaitTimeBucket(accountId, cost) ==
    LET bucket == Refilled(accountId) IN
    /\ buckets' = [GetBucket(buckets, accountId) EXCEPT ![accountId] = bucket]
    /\ ret' = [op |-> "getWaitTime", key |-> accountId,
               value |-> WaitTime(bucket, cost)]
    /\ UNCHANGED <<now, config, waiters, admitted, nonThrottleVars>>

GetWaitTime(accountId, cost) ==
    /\ GetWaitTimeBucket(accountId, cost)
    /\ Untracked(accountId)

\* getWaitTime of a caller whose history is kept.
GetWaitTimeTracked(accountId, cost) ==
    /\ GetWaitTimeBucket(accountId, cost)
    /\ promised' = [promised EXCEPT ![accountId] =
                       IF ret'.value > 0
                       THEN [cost |-> cost, at |-> now + ret'.value]
                       ELSE NoPromise]
    /\ drain' = DrainAfter(accountId, FALSE, FALSE)

\* A cost in thousandths of a token.
Thousandths(cost) == CeilDouble(MulDouble(cost, MsPerSecond))

\* The admissions after a waitAndConsume call on the account began, and after
\* one of the given cost returned.
Began(accountId) ==
    IF admitted[accountId].since = Undefined
    THEN [admitted EXCEPT ![accountId].since = now]
    ELSE admitted
Admitted(accountId, cost) ==
    [Began(accountId) EXCEPT ![accountId].total = @ + Thousandths(cost)]

\* waitAndConsume up to its await: with no wait it consumes in the same turn.
WaitAndConsumeCall(c, accountId, cost) ==
    LET bucket == Refilled(accountId)
        waitTime == WaitTime(bucket, cost) IN
    /\ waiters[c] = Idle
    /\ IF waitTime > 0
       THEN /\ buckets' = [GetBucket(buckets, accountId) EXCEPT ![accountId] = bucket]
            /\ waiters' = [waiters EXCEPT ![c] =
                   [accountId |-> accountId, cost |-> cost, wakeAt |-> now + waitTime]]
            /\ ret' = [op |-> "waitAndConsume.await", key |-> accountId,
                       value |-> waitTime]
            /\ admitted' = Began(accountId)
       ELSE /\ buckets' = [GetBucket(buckets, accountId) EXCEPT
                              ![accountId] = [bucket EXCEPT !.tokens =
                                  MaxZeroDouble(SubDouble(@, cost))]]
            /\ waiters' = waiters
            /\ ret' = [op |-> "waitAndConsume", key |-> accountId,
                       value |-> 0]
            /\ admitted' = Admitted(accountId, cost)
    /\ Untracked(accountId)
    /\ UNCHANGED <<now, config, nonThrottleVars>>

\* The timer of a suspended waitAndConsume fires (never early): refill and
\* force-subtract the cost, clamping at zero.
WaitAndConsumeResume(c) ==
    LET w == waiters[c]
        bucket == Refilled(w.accountId) IN
    /\ w # Idle
    /\ now >= w.wakeAt
    /\ buckets' = [GetBucket(buckets, w.accountId) EXCEPT
                      ![w.accountId] = [bucket EXCEPT !.tokens =
                          MaxZeroDouble(SubDouble(@, w.cost))]]
    /\ waiters' = [waiters EXCEPT ![c] = Idle]
    /\ ret' = [op |-> "waitAndConsume", key |-> w.accountId,
               value |-> 0]
    /\ admitted' = Admitted(w.accountId, w.cost)
    /\ Untracked(w.accountId)
    /\ UNCHANGED <<now, config, nonThrottleVars>>

GetTokenCount(accountId) ==
    LET bucket == Refilled(accountId) IN
    /\ buckets' = [GetBucket(buckets, accountId) EXCEPT ![accountId] = bucket]
    /\ ret' = [op |-> "getTokenCount", key |-> accountId, value |-> bucket.tokens]
    /\ Untracked(accountId)
    /\ UNCHANGED <<now, config, waiters, admitted, nonThrottleVars>>

\* reset(accountId): drop the bucket; the next reference starts full.
Reset(accountId) ==
    /\ accountId \in DOMAIN buckets
    /\ buckets' = [k \in DOMAIN buckets \ {accountId} |-> buckets[k]]
    /\ ret' = [op |-> "reset", key |-> accountId]
    /\ promised' = [promised EXCEPT ![accountId] = NoPromise]
    /\ drain' = [drain EXCEPT ![accountId] = NoDrain]
    /\ UNCHANGED <<now, config, waiters, admitted, nonThrottleVars>>

\* The clock advances by d, up to the horizon.
ClockTick(d, horizon) ==
    /\ d > 0
    /\ now + d <= horizon
    /\ now' = now + d
    /\ UNCHANGED <<ret, throttleVars, nonThrottleVars>>

BucketTick(d) == ClockTick(d, MaxBucketSteps * 250)

InitThrottle(configs) ==
    /\ buckets = <<>>
    /\ config \in configs
    /\ waiters = [c \in Callers |-> Idle]
    /\ promised = [a \in Accounts |-> NoPromise]
    /\ drain = [a \in Accounts |-> NoDrain]
    /\ admitted = [a \in Accounts |-> [since |-> Undefined, total |-> 0]]

NextThrottle ==
    \/ \E a \in Accounts, c \in Costs : TryConsume(a, c)
    \/ \E a \in Accounts, c \in Costs : GetWaitTime(a, c)
    \/ \E a \in Accounts : GetTokenCount(a)
    \/ \E a \in Accounts : Reset(a)
    \/ \E d \in BucketTicks : BucketTick(d)

\* Concurrent waitAndConsume callers sharing the bucket of one account.
NextWaiters ==
    \/ \E c \in Callers, k \in Costs : WaitAndConsumeCall(c, "A", k)
    \/ \E c \in Callers : WaitAndConsumeResume(c)
    \/ \E d \in BucketTicks : BucketTick(d)

\* One caller that asks for the wait time of a request and comes back when it
\* has passed, on a bucket refilling a token every 100 ms.
WaitConfigs == [tokensPerSecond : {10}, bucketSize : {1}]
WaitTicks == {10}
WakeTick(accountId) ==
    /\ promised[accountId] # NoPromise
    /\ ClockTick(promised[accountId].at - now, MaxWaitSteps * 10)

NextWait ==
    \/ \E c \in Costs : TryConsumeTracked("A", c)
    \/ \E c \in Costs : GetWaitTimeTracked("A", c)
    \/ WakeTick("A")
    \/ \E d \in WaitTicks : ClockTick(d, MaxWaitSteps * 10)

\* One caller that spends a bucket request by request.
DrainConfigs ==
    {[tokensPerSecond |-> 10, bucketSize |-> 10],
     [tokensPerSecond |-> 100, bucketSize |-> 30]}
DrainTicks == {100, 290}

NextDrain ==
    \/ TryConsumeTracked("A", One)
    \/ \E d \in DrainTicks : BucketTick(d)

\* =================================================================== cache
\* Cache keys; the empty string is a key like any other.
Keys == {"", "k0", "k1"}

\* Keys of the form accountId:method:rest, as the callers of the pattern
\* invalidations build them.
PatternAccounts == {"a1", "b1", "a."}
KeyParts ==
    [accountId : {"a1"}, method : {"search"}, rest : {"q"}]
    \cup [accountId : {"a1"}, method : {"labels", "drafts"}, rest : {"list"}]
    \cup [accountId : {"a1"}, method : {"message"}, rest : {"m1", "m10"}]
    \cup [accountId : {"a1"}, method : {"thread"}, rest : {"t1"}]
    \cup [accountId : {"a1"}, method : {"other"}, rest : {"x"}]
    \cup [accountId : {"b1"}, method : {"search", "message"}, rest : {"m1"}]
KeyOf(p) == p.accountId \o ":" \o p.method \o ":" \o p.rest
PatternKeys == {KeyOf(p) : p \in KeyParts}
\* The messageId argument; an absent one and the empty string are both falsy.
MessageIds == {"", "m1"}

AllKeys == Keys \cup PatternKeys
Values == {"v1", "v2"}
\* Values stored by direct set calls.
SetValues == {"v1"}
\* Keys withCache is called with.
FetchKeys == {"k0", "k1"}
\* The instants at which the cache model observes the clock (ms).
CacheTimes == {0, 1000, 1001}
\* An omitted ttlMs argument.
NoTtl == Undefined
\* ttlMs arguments a caller may pass.
TtlArgs == {NoTtl, 1000}
\* DEFAULT_CONFIG of the cache.
DefaultCacheConfig == [maxSize |-> 1000, defaultTtlMs |-> 60000]
\* Configurations an LRUCache may be constructed with.
CacheConfigs == [maxSize : 1..MaxCacheSize, defaultTtlMs : {DefaultCacheConfig.defaultTtlMs}]
\* withCache callers; each has at most one call in flight.
Fetchers == {"f1"}
NotFetching == [key |-> "", ttlMs |-> NoTtl, active |-> FALSE, invalidated |-> FALSE]
NotFetched == "none"
NeverSet == [at |-> -1, ttl |-> -1, value |-> "none"]

CacheKeys(c) == {c[i].key : i \in 1..Len(c)}
\* Map.has / Map.get / Map.delete on the ordered entries.
Has(c, key) == key \in CacheKeys(c)
Entry(c, key) == c[CHOOSE i \in 1..Len(c) : c[i].key = key]
Remove(c, key) == SelectSeq(c, LAMBDA e : e.key # key)

\* A mutant of the expiry test that expires an entry at its expiry instant.
IsExpiredAtDeadline(entry) == now >= entry.expiresAt

\* The expiry test of get: Date.now() > entry.expiresAt.
IsExpired(entry) == now > entry.expiresAt

\* ---- history variables, updated after every call from the entries c it left
\* A key the call removed from the cache.
Dropped(c, key) == Has(cache, key) /\ ~Has(c, key)
\* recency after a call that accessed `key` (set it, or hit it in a lookup).
Touched(c, key) ==
    SelectSeq(SelectSeq(recency, LAMBDA k : k # key) \o <<key>>,
              LAMBDA k : ~Dropped(c, k))
Untouched(c) == SelectSeq(recency, LAMBDA k : ~Dropped(c, k))
\* lastSet and fetched are forgotten for the keys the call removed.
StillSet(c) == [k \in AllKeys |-> IF Dropped(c, k) THEN NeverSet ELSE lastSet[k]]
StillFetched(c) == [k \in AllKeys |-> IF Dropped(c, k) THEN NotFetched ELSE fetched[k]]
\* stale keeps the keys the call left in the cache.
StillStale(c) == {k \in stale : ~Dropped(c, k)}
\* fetching after an invalidation of the keys `matched`: the withCache calls
\* awaiting the operation for one of them are marked.
Interrupted(matched) ==
    [f \in Fetchers |->
        IF fetching[f].active /\ fetching[f].key \in matched
        THEN [fetching[f] EXCEPT !.invalidated = TRUE]
        ELSE fetching[f]]

\* A mutant of get's hit path that leaves the entry where it is.
MoveToEndSkipped(c, key) == c

\* get's hit path: delete the key and set it again, which moves it to the end.
MoveToEnd(c, key) == Remove(c, key) \o <<Entry(c, key)>>

\* A mutant of the lookup that drops an expired entry without counting a miss.
LookupExpiryUncounted(key) ==
    IF ~Has(cache, key)
    THEN [cache |-> cache, stats |-> [stats EXCEPT !.misses = @ + 1], hit |-> FALSE,
          why |-> "absent"]
    ELSE IF IsExpired(Entry(cache, key))
    THEN [cache |-> Remove(cache, key), stats |-> stats,
          hit |-> FALSE, why |-> "expired"]
    ELSE [cache |-> MoveToEnd(cache, key), stats |-> [stats EXCEPT !.hits = @ + 1],
          hit |-> TRUE, why |-> "live"]

\* The lookup of get: [cache, stats, hit, entry].
Lookup(key) ==
    IF ~Has(cache, key)
    THEN [cache |-> cache, stats |-> [stats EXCEPT !.misses = @ + 1], hit |-> FALSE,
          why |-> "absent"]
    ELSE IF IsExpired(Entry(cache, key))
    THEN [cache |-> Remove(cache, key), stats |-> [stats EXCEPT !.misses = @ + 1],
          hit |-> FALSE, why |-> "expired"]
    ELSE [cache |-> MoveToEnd(cache, key), stats |-> [stats EXCEPT !.hits = @ + 1],
          hit |-> TRUE, why |-> "live"]

\* The counters stay within the explored range.
StatsRoom == stats.hits + stats.misses + stats.evictions < MaxStat

CacheGet(key) ==
    LET r == Lookup(key) IN
    /\ ~hung
    /\ StatsRoom
    /\ cache' = r.cache
    /\ stats' = r.stats
    /\ ret' = IF r.hit
              THEN [op |-> "get", key |-> key, hit |-> TRUE,
                    value |-> Entry(cache, key).value,
                    expiresAt |-> Entry(cache, key).expiresAt]
              ELSE [op |-> "get", key |-> key, hit |-> FALSE, why |-> r.why]
    /\ recency' = IF r.hit THEN Touched(r.cache, key) ELSE Untouched(r.cache)
    /\ lastSet' = StillSet(r.cache)
    /\ fetched' = StillFetched(r.cache)
    /\ stale' = StillStale(r.cache)
    /\ UNCHANGED <<now, cacheConfig, hung, fetching, nonCacheVars>>

GetWithMeta(key) ==
    LET r == Lookup(key) IN
    /\ ~hung
    /\ StatsRoom
    /\ cache' = r.cache
    /\ stats' = r.stats
    /\ ret' = IF r.hit
              THEN [op |-> "getWithMeta", key |-> key, cacheHit |-> TRUE,
                    value |-> Entry(cache, key).value,
                    ttlRemainingMs |-> Max(0, Entry(cache, key).expiresAt - now)]
              ELSE [op |-> "getWithMeta", key |-> key, cacheHit |-> FALSE, why |-> r.why]
    /\ recency' = IF r.hit THEN Touched(r.cache, key) ELSE Untouched(r.cache)
    /\ lastSet' = StillSet(r.cache)
    /\ fetched' = StillFetched(r.cache)
    /\ stale' = StillStale(r.cache)
    /\ UNCHANGED <<now, cacheConfig, hung, fetching, nonCacheVars>>

\* The eviction loop of set: while at capacity, delete the first key of the
\* Map, unless that key is falsy (the empty string), in which case nothing is
\* deleted and the loop spins for ever.  [cache, evictions, hung].
RECURSIVE EvictLoop(_, _)
EvictLoop(c, evictions) ==
    IF Len(c) < cacheConfig.maxSize
    THEN [cache |-> c, evictions |-> evictions, hung |-> FALSE]
    ELSE IF c = <<>> \/ Head(c).key = ""
    THEN [cache |-> c, evictions |-> evictions, hung |-> TRUE]
    ELSE EvictLoop(Tail(c), evictions + 1)

\* A mutant of set that returns without storing anything.
SetEntriesDropped(key, value, ttlMs) ==
    [cache |-> cache, evictions |-> 0, hung |-> FALSE]

\* A mutant of set that stores the new entry without making room for it.
SetEntriesUnbounded(key, value, ttlMs) ==
    [cache |-> Remove(cache, key) \o
               <<[key |-> key, value |-> value,
                  expiresAt |-> now + (IF ttlMs = NoTtl THEN cacheConfig.defaultTtlMs
                                                        ELSE ttlMs),
                  createdAt |-> now]>>,
     evictions |-> 0, hung |-> FALSE]

\* set: the entries, eviction count and outcome of set(key, value, ttlMs).
SetEntries(key, value, ttlMs) ==
    LET ttl == IF ttlMs = NoTtl THEN cacheConfig.defaultTtlMs ELSE ttlMs
        room == EvictLoop(Remove(cache, key), 0)
    IN  IF room.hung
        THEN room
        ELSE [room EXCEPT !.cache = @ \o <<[key |-> key, value |-> value,
                                            expiresAt |-> now + ttl,
                                            createdAt |-> now]>>]

\* The state change of set, shared by LRUCache.set and withCache.
DoSet(key, value, ttlMs, fromFetch) ==
    LET r == SetEntries(key, value, ttlMs) IN
    /\ r.evictions > 0 => StatsRoom
    /\ cache' = r.cache
    /\ stats' = [stats EXCEPT !.evictions = @ + r.evictions]
    /\ hung' = r.hung
    /\ recency' = IF r.hung THEN recency ELSE Touched(r.cache, key)
    /\ lastSet' = IF r.hung THEN lastSet
                  ELSE [StillSet(r.cache) EXCEPT
                           ![key] = [at |-> now,
                                     ttl |-> IF ttlMs = NoTtl
                                             THEN cacheConfig.defaultTtlMs ELSE ttlMs,
                                     value |-> value]]
    /\ fetched' = IF r.hung THEN fetched
                  ELSE [StillFetched(r.cache) EXCEPT
                           ![key] = IF fromFetch THEN value ELSE NotFetched]
    /\ stale' = IF r.hung THEN stale
                ELSE IF fromFetch /\ \E f \in Fetchers : /\ fetching[f].active
                                                         /\ fetching[f].key = key
                                                         /\ fetching[f].invalidated
                THEN StillStale(r.cache) \cup {key}
                ELSE StillStale(r.cache) \ {key}

CacheSet(key, value, ttlMs) ==
    /\ ~hung
    /\ DoSet(key, value, ttlMs, FALSE)
    /\ ret' = IF hung' THEN ret ELSE [op |-> "set", key |-> key]
    /\ UNCHANGED <<now, cacheConfig, fetching, nonCacheVars>>

CacheDelete(key) ==
    LET c == Remove(cache, key) IN
    /\ ~hung
    /\ cache' = c
    /\ ret' = [op |-> "delete", key |-> key, value |-> Has(cache, key)]
    /\ recency' = Untouched(c)
    /\ lastSet' = StillSet(c)
    /\ fetched' = StillFetched(c)
    /\ stale' = StillStale(c)
    /\ fetching' = Interrupted({key})
    /\ UNCHANGED <<now, stats, cacheConfig, hung, nonCacheVars>>

\* The entries left by invalidatePattern for a pattern matching `matching`.
Invalidated(c, matching) == SelectSeq(c, LAMBDA e : e.key \notin matching)

\* invalidatePattern(pattern), the pattern given by the set of keys it matches.
InvalidatePattern(matching) ==
    LET c == Invalidated(cache, matching) IN
    /\ ~hung
    /\ cache' = c
    /\ ret' = [op |-> "invalidatePattern", value |-> Len(cache) - Len(c)]
    /\ recency' = Untouched(c)
    /\ lastSet' = StillSet(c)
    /\ fetched' = StillFetched(c)
    /\ stale' = StillStale(c)
    /\ fetching' = Interrupted(matching)
    /\ UNCHANGED <<now, stats, cacheConfig, hung, nonCacheVars>>

\* Whether the pattern p, a sequence of atoms each optionally followed by *,
\* matches a prefix of s.  An atom is "." (any character) or a literal.
RECURSIVE MatchesPrefix(_, _)
MatchesPrefix(p, s) ==
    IF p = ""
    THEN TRUE
    ELSE LET atom == Head(p)
             star == Len(p) >= 2 /\ SubSeq(p, 2, 2) = "*"
             one == s # "" /\ (atom = "." \/ atom = Head(s))
         IN  IF star
             THEN \/ MatchesPrefix(SubSeq(p, 3, Len(p)), s)
                  \/ one /\ MatchesPrefix(p, Tail(s))
             ELSE one /\ MatchesPrefix(Tail(p), Tail(s))

\* new RegExp(source).test(key): a leading ^ anchors the match at the start.
RegExpTest(source, key) ==
    IF source # "" /\ Head(source) = "^"
    THEN MatchesPrefix(Tail(source), key)
    ELSE \E i \in 1..(Len(key) + 1) : MatchesPrefix(source, SubSeq(key, i, Len(key)))

\* The stored keys the pattern matches.
Matching(c, source) == {k \in CacheKeys(c) : RegExpTest(source, k)}

\* The keys, stored or not, that the pattern matches.
Matched(source) == {k \in AllKeys : RegExpTest(source, k)}

\* The state change of a call that leaves the entries c, its patterns
\* matching the keys `matched`.
Invalidate(c, matched) ==
    /\ ~hung
    /\ cache' = c
    /\ recency' = Untouched(c)
    /\ lastSet' = StillSet(c)
    /\ fetched' = StillFetched(c)
    /\ stale' = StillStale(c)
    /\ fetching' = Interrupted(matched)
    /\ UNCHANGED <<now, stats, cacheConfig, hung, nonCacheVars>>

\* invalidateAccount(accountId): invalidatePattern(new RegExp(`^${accountId}:`)).
InvalidateAccount(accountId) ==
    LET c == Invalidated(cache, Matching(cache, "^" \o accountId \o ":")) IN
    /\ Invalidate(c, Matched("^" \o accountId \o ":"))
    /\ ret' = [op |-> "invalidateAccount", accountId |-> accountId,
               value |-> Len(cache) - Len(c)]

\* The entries left by invalidateForMessageModification: the search and labels
\* patterns, then, for a truthy messageId, the message and thread patterns.
MessageModificationEntries(c, accountId, messageId) ==
    LET c1 == Invalidated(c, Matching(c, "^" \o accountId \o ":search:"))
        c2 == Invalidated(c1, Matching(c1, "^" \o accountId \o ":labels:"))
        c3 == Invalidated(c2, Matching(c2, "^" \o accountId \o ":message:.*"
                                           \o messageId))
        c4 == Invalidated(c3, Matching(c3, "^" \o accountId \o ":thread:"))
    IN  IF messageId # "" THEN c4 ELSE c2

\* The keys the patterns of invalidateForMessageModification match.
MessageModificationMatched(accountId, messageId) ==
    Matched("^" \o accountId \o ":search:")
    \cup Matched("^" \o accountId \o ":labels:")
    \cup (IF messageId # ""
          THEN Matched("^" \o accountId \o ":message:.*" \o messageId)
               \cup Matched("^" \o accountId \o ":thread:")
          ELSE {})

InvalidateForMessageModification(accountId, messageId) ==
    /\ Invalidate(MessageModificationEntries(cache, accountId, messageId),
                  MessageModificationMatched(accountId, messageId))
    /\ ret' = [op |-> "invalidateForMessageModification", accountId |-> accountId,
               messageId |-> messageId]

\* invalidateDrafts(accountId): invalidatePattern(new RegExp(`^${accountId}:draft`)).
InvalidateDrafts(accountId) ==
    /\ Invalidate(Invalidated(cache, Matching(cache, "^" \o accountId \o ":draft")),
                  Matched("^" \o accountId \o ":draft"))
    /\ ret' = [op |-> "invalidateDrafts", accountId |-> accountId]

CacheClear ==
    /\ ~hung
    /\ cache' = <<>>
    /\ ret' = [op |-> "clear"]
    /\ recency' = <<>>
    /\ lastSet' = [k \in AllKeys |-> NeverSet]
    /\ fetched' = [k \in AllKeys |-> NotFetched]
    /\ stale' = {}
    /\ UNCHANGED <<now, stats, cacheConfig, hung, fetching, nonCacheVars>>

ResetStats ==
    /\ ~hung
    /\ stats' = [hits |-> 0, misses |-> 0, evictions |-> 0]
    /\ ret' = [op |-> "resetStats"]
    /\ UNCHANGED <<now, cache, cacheConfig, hung, fetching, recency, lastSet, fetched,
                   stale, nonCacheVars>>

\* withCache up to its await: a hit returns at once, a miss starts operation().
WithCacheCall(f, key, ttlMs) ==
    LET r == Lookup(key) IN
    /\ ~hung
    /\ ~fetching[f].active
    /\ StatsRoom
    /\ cache' = r.cache
    /\ stats' = r.stats
    /\ recency' = IF r.hit THEN Touched(r.cache, key) ELSE Untouched(r.cache)
    /\ lastSet' = StillSet(r.cache)
    /\ fetched' = StillFetched(r.cache)
    /\ stale' = StillStale(r.cache)
    /\ IF r.hit
       THEN /\ ret' = [op |-> "withCache", key |-> key, cacheHit |-> TRUE,
                       value |-> Entry(cache, key).value,
                       ttlRemainingMs |-> Max(0, Entry(cache, key).expiresAt - now)]
            /\ fetching' = fetching
       ELSE /\ ret' = [op |-> "withCache.operation", key |-> key]
            /\ fetching' = [fetching EXCEPT
                               ![f] = [key |-> key, ttlMs |-> ttlMs, active |-> TRUE,
                                       invalidated |-> FALSE]]
    /\ UNCHANGED <<now, cacheConfig, hung, nonCacheVars>>

\* operation() resolved with `value`: store it and return it as a miss.
WithCacheResolve(f, value) ==
    LET call == fetching[f] IN
    /\ ~hung
    /\ call.active
    /\ DoSet(call.key, value, call.ttlMs, TRUE)
    /\ fetching' = IF hung' THEN fetching ELSE [fetching EXCEPT ![f] = NotFetching]
    /\ ret' = IF hung' THEN ret
              ELSE [op |-> "withCache", key |-> call.key, cacheHit |-> FALSE,
                    value |-> value,
                    ttlRemainingMs |-> IF call.ttlMs = NoTtl
                                       THEN DefaultCacheConfig.defaultTtlMs
                                       ELSE call.ttlMs]
    /\ UNCHANGED <<now, cacheConfig, nonCacheVars>>

\* operation() rejected: withCache rejects and nothing is stored.
WithCacheReject(f) ==
    /\ ~hung
    /\ fetching[f].active
    /\ fetching' = [fetching EXCEPT ![f] = NotFetching]
    /\ ret' = [op |-> "withCache.rejected", key |-> fetching[f].key]
    /\ UNCHANGED <<now, cache, stats, cacheConfig, hung, recency, lastSet, fetched,
                   stale, nonCacheVars>>

CacheTick(t) ==
    /\ ~hung
    /\ t > now
    /\ now' = t
    /\ UNCHANGED <<ret, cacheVars, nonCacheVars>>

InitCache(configs) ==
    /\ cache = <<>>
    /\ stats = [hits |-> 0, misses |-> 0, evictions |-> 0]
    /\ cacheConfig \in configs
    /\ hung = FALSE
    /\ fetching = [f \in Fetchers |-> NotFetching]
    /\ recency = <<>>
    /\ lastSet = [k \in AllKeys |-> NeverSet]
    /\ fetched = [k \in AllKeys |-> NotFetched]
    /\ stale = {}

NextCache ==
    \/ \E k \in Keys : CacheGet(k)
    \/ \E k \in Keys : GetWithMeta(k)
    \/ \E k \in Keys, v \in SetValues, t \in TtlArgs : CacheSet(k, v, t)
    \/ \E k \in Keys : CacheDelete(k)
    \/ \E m \in SUBSET Keys : InvalidatePattern(m)
    \/ CacheClear
    \/ ResetStats
    \/ \E t \in CacheTimes : CacheTick(t)

\* getStats: the counters, the number of entries, and the hit rate, a double:
\* total > 0 ? hits / total : 0.
GetStats ==
    LET total == stats.hits + stats.misses IN
    /\ ~hung
    /\ ret' = [op |-> "getStats", hits |-> stats.hits, misses |-> stats.misses,
               evictions |-> stats.evictions, size |-> Len(cache),
               hitRate |-> IF total > 0 THEN DivDouble(ToDouble(stats.hits), total)
                                        ELSE Zero]
    /\ UNCHANGED <<now, cacheVars, nonCacheVars>>

\* Capacities and the ttlMs argument of the caches whose statistics are read.
StatsConfigs == [maxSize : {1, 2}, defaultTtlMs : {DefaultCacheConfig.defaultTtlMs}]
StatsTtl == 1000

\* The cache with its statistics read between the calls.
NextStats ==
    \/ \E k \in Keys : CacheGet(k)
    \/ \E k \in Keys : GetWithMeta(k)
    \/ \E k \in Keys, v \in SetValues : CacheSet(k, v, StatsTtl)
    \/ \E k \in Keys : CacheDelete(k)
    \/ \E m \in SUBSET Keys : InvalidatePattern(m)
    \/ CacheClear
    \/ ResetStats
    \/ GetStats
    \/ \E t \in CacheTimes : CacheTick(t)

\* withCache on the shared cache, with the invalidations that run beside it.
NextWithCache ==
    \/ \E f \in Fetchers, k \in FetchKeys, t \in TtlArgs : WithCacheCall(f, k, t)
    \/ \E f \in Fetchers, v \in Values : WithCacheResolve(f, v)
    \/ \E f \in Fetchers : WithCacheReject(f)
    \/ \E k \in FetchKeys : CacheDelete(k)
    \/ \E m \in SUBSET FetchKeys : InvalidatePattern(m)
    \/ ResetStats
    \/ \E t \in CacheTimes : CacheTick(t)

\* ---- makeKey
\* A JavaScript value: a number, an object (its own properties in insertion
\* order) or undefined.
Num(n) == [kind |-> "number", n |-> n, props |-> <<>>]
Obj(props) == [kind |-> "object", n |-> 0, props |-> props]
NoParams == [kind |-> "undefined", n |-> 0, props |-> <<>>]
Prop(name, value) == [name |-> name, value |-> value]

\* The property names in use, in ascending UTF-16 code unit order.
CodeUnitOrder == <<"a", "b", "x">>

ParamNumbers == {Num(n) : n \in 1..MaxParamValue}
\* Nested objects of at most one property, parameter objects of at most two.
NestedObjects ==
    {Obj(<<>>)} \cup {Obj(<<Prop(k, v)>>) : k \in {"a", "x"}, v \in ParamNumbers}
ParamValues == ParamNumbers \cup NestedObjects
ParamObjects ==
    {Obj(<<>>)}
    \cup {Obj(<<Prop(k, v)>>) : k \in {"a", "b"}, v \in ParamValues}
    \cup {Obj(<<Prop(k[1], v), Prop(k[2], w)>>) :
             k \in {<<"a", "b">>, <<"b", "a">>}, v \in ParamValues, w \in ParamValues}
ParamArgs == ParamObjects \cup {NoParams}
KeyAccounts == {"a1", "b1"}
Methods == {"search", "getMessage"}

\* Object.keys(o): the names in insertion order.
ObjectKeys(o) == [i \in 1..Len(o.props) |-> o.props[i].name]
HasOwn(o, name) == \E i \in 1..Len(o.props) : o.props[i].name = name
Get(o, name) == o.props[CHOOSE i \in 1..Len(o.props) : o.props[i].name = name].value

\* A mutant of the sort that leaves the names as they were supplied.
SortedAsSupplied(names) == names

\* Array.prototype.sort() on property names: ascending code unit order.
Sorted(names) ==
    SelectSeq(CodeUnitOrder, LAMBDA k : \E i \in 1..Len(names) : names[i] = k)

\* JSON.stringify(value, allow) with an array replacer: every object, at every
\* depth, is serialized as its own properties among `allow`, in allow's order.
RECURSIVE Stringify(_, _)
RECURSIVE Members(_, _, _, _)
Members(o, names, allow, first) ==
    IF names = <<>>
    THEN ""
    ELSE IF HasOwn(o, Head(names))
    THEN (IF first THEN "" ELSE ",")
         \o "\"" \o Head(names) \o "\":" \o Stringify(Get(o, Head(names)), allow)
         \o Members(o, Tail(names), allow, FALSE)
    ELSE Members(o, Tail(names), allow, first)
Stringify(value, allow) ==
    IF value.kind = "number"
    THEN ToString(value.n)
    ELSE "{" \o Members(value, allow, allow, TRUE) \o "}"

\* LRUCache.makeKey(accountId, method, params).
MakeKey(accountId, method, params) ==
    LET paramStr == IF params.kind = "undefined"
                    THEN ""
                    ELSE Stringify(params, Sorted(ObjectKeys(params)))
    IN  accountId \o ":" \o method \o ":" \o paramStr

MakeKeyCall(accountId, method, params) ==
    /\ ret' = [op |-> "makeKey", accountId |-> accountId, method |-> method,
               params |-> params, value |-> MakeKey(accountId, method, params)]
    /\ UNCHANGED <<now, cacheVars, nonCacheVars>>

NextMakeKey ==
    \E a \in KeyAccounts, m \in Methods, p \in ParamArgs : MakeKeyCall(a, m, p)

\* The pattern invalidations on a cache filled with accountId:method:rest keys.
NextInvalidate ==
    \/ \E k \in PatternKeys, v \in SetValues : CacheSet(k, v, NoTtl)
    \/ \E a \in PatternAccounts : InvalidateAccount(a)
    \/ \E a \in PatternAccounts, m \in MessageIds :
           InvalidateForMessageModification(a, m)
    \/ \E a \in PatternAccounts : InvalidateDrafts(a)
    \/ ResetStats

\* =================================================================== retry
\* DEFAULT_RETRY_OPTIONS.
DefaultRetryOptions ==
    [maxRetries |-> 5, initialDelayMs |-> 1000, maxDelayMs |-> 32000,
     backoffMultiplier |-> 2, retryableStatusCodes |-> {429, 500, 502, 503, 504}]

\* Shapes of the values an operation may throw: an object carries some of a
\* numeric status, response.status and code (Undefined: field absent or not a
\* number); anything else thrown is not an object.
ErrorShapes ==
    { [isObject |-> TRUE,  status |-> 503, responseStatus |-> Undefined, code |-> Undefined],
      [isObject |-> TRUE,  status |-> 400, responseStatus |-> Undefined, code |-> Undefined],
      [isObject |-> TRUE,  status |-> 400, responseStatus |-> Undefined, code |-> 429],
      [isObject |-> TRUE,  status |-> Undefined, responseStatus |-> Undefined, code |-> 429],
      [isObject |-> TRUE,  status |-> Undefined, responseStatus |-> 503, code |-> Undefined],
      [isObject |-> TRUE,  status |-> Undefined, responseStatus |-> Undefined, code |-> Undefined],
      [isObject |-> FALSE, status |-> Undefined, responseStatus |-> Undefined, code |-> Undefined] }

\* A thrown value: its shape and which invocation of the operation threw it
\* (0: no invocation, the value is undefined).
Thrown(shape, by) == [shape |-> shape, by |-> by]
NoError ==
    Thrown([isObject |-> FALSE, status |-> Undefined, responseStatus |-> Undefined,
            code |-> Undefined], 0)

\* What the caller's operation does: anything, or always the same failure.
Operations == {"any", "always503", "always400"}
ShapesOf(operation) ==
    CASE operation = "always503" -> {s \in ErrorShapes : s.isObject /\ s.status = 503}
      [] operation = "always400" ->
             {s \in ErrorShapes : s.isObject /\ s.status = 400 /\ s.code = Undefined}
      [] OTHER -> ErrorShapes

\* Options a caller may pass, merged over the defaults.
RetryOptions ==
    [maxRetries : (-1)..MaxRetriesOption,
     initialDelayMs : {DefaultRetryOptions.initialDelayMs},
     maxDelayMs : {1500, DefaultRetryOptions.maxDelayMs},
     backoffMultiplier : {DefaultRetryOptions.backoffMultiplier},
     retryableStatusCodes : {DefaultRetryOptions.retryableStatusCodes},
     hasOnRetry : BOOLEAN,
     operation : Operations]

\* Jitter factors Math.random() can produce, in percent of the delay.
Jitters == {-25, 0, 25}

\* A mutant of getStatusCode that looks at code before status.
GetStatusCodeCodeFirst(error) ==
    IF ~error.shape.isObject THEN Undefined
    ELSE IF error.shape.code # Undefined THEN error.shape.code
    ELSE IF error.shape.status # Undefined THEN error.shape.status
    ELSE IF error.shape.responseStatus # Undefined THEN error.shape.responseStatus
    ELSE Undefined

\* getStatusCode: status, else response.status, else code, else undefined.
GetStatusCode(error) ==
    IF ~error.shape.isObject THEN Undefined
    ELSE IF error.shape.status # Undefined THEN error.shape.status
    ELSE IF error.shape.responseStatus # Undefined THEN error.shape.responseStatus
    ELSE IF error.shape.code # Undefined THEN error.shape.code
    ELSE Undefined

IsRetryable(error, retryableStatusCodes) ==
    LET statusCode == GetStatusCode(error) IN
    IF statusCode = Undefined THEN FALSE ELSE statusCode \in retryableStatusCodes


\* calculateDelay with the jitter the random number gave, rounded.
CalculateDelay(n, o, jitter) ==
    LET exponentialDelay == o.initialDelayMs * Pow(o.backoffMultiplier, n)
        delay == Min(exponentialDelay, o.maxDelayMs)
    IN  (delay * (100 + jitter) + 50) \div 100

\* A mutant of the loop condition that stops one attempt early.
LoopContinuesShort(n, o) == n < o.maxRetries

\* The for loop's condition.
LoopContinues(n, o) == n <= o.maxRetries

\* throw lastError.
FinalThrow(error, history) == error

\* The head of the loop for attempt n: invoke the operation, or leave the loop
\* and throw lastError.
LoopHead(n, o, error, history) ==
    IF LoopContinues(n, o)
    THEN /\ rpc' = "operation"
         /\ calls' = Append(history, [outcome |-> "pending", error |-> NoError])
         /\ settled' = [how |-> "pending", error |-> NoError, value |-> "none"]
    ELSE /\ rpc' = "rejected"
         /\ calls' = history
         /\ settled' = [how |-> "rejected", error |-> FinalThrow(error, history),
                        value |-> "none"]

WithRetryCall(o) ==
    /\ rpc \in {"idle", "returned", "rejected"}
    /\ opts' = o
    /\ attempt' = 0
    /\ lastError' = NoError
    /\ retryLog' = <<>>
    /\ slept' = <<>>
    /\ LoopHead(0, o, NoError, <<>>)
    /\ UNCHANGED <<now, ret, nonRetryVars>>

\* The operation resolved: withRetry returns its result.
OperationResolve(value) ==
    /\ rpc = "operation"
    /\ opts.operation = "any"
    /\ rpc' = "returned"
    /\ calls' = [calls EXCEPT ![Len(calls)] = [outcome |-> "resolved", error |-> NoError]]
    /\ settled' = [how |-> "resolved", error |-> NoError, value |-> value]
    /\ UNCHANGED <<now, ret, opts, attempt, lastError, retryLog, slept, nonRetryVars>>

\* The operation threw: the catch block.
OperationReject(shape, jitter) ==
    LET error == Thrown(shape, Len(calls))
        history == [calls EXCEPT ![Len(calls)] = [outcome |-> "rejected", error |-> error]]
        delayMs == CalculateDelay(attempt, opts, jitter)
    IN
    /\ rpc = "operation"
    /\ shape \in ShapesOf(opts.operation)
    /\ lastError' = error
    /\ calls' = history
    /\ IF attempt >= opts.maxRetries \/ ~IsRetryable(error, opts.retryableStatusCodes)
       THEN /\ rpc' = "rejected"
            /\ settled' = [how |-> "rejected", error |-> FinalThrow(error, history),
                           value |-> "none"]
            /\ UNCHANGED <<retryLog, slept>>
       ELSE /\ rpc' = "sleep"
            /\ retryLog' = IF opts.hasOnRetry
                           THEN Append(retryLog, [error |-> error, attempt |-> attempt + 1,
                                                  delayMs |-> delayMs])
                           ELSE retryLog
            /\ slept' = Append(slept, delayMs)
            /\ UNCHANGED settled
    /\ UNCHANGED <<now, ret, opts, attempt, nonRetryVars>>

\* The sleep is over: attempt++ and the next turn of the loop.
SleepDone ==
    /\ rpc = "sleep"
    /\ attempt' = attempt + 1
    /\ LoopHead(attempt + 1, opts, lastError, calls)
    /\ UNCHANGED <<now, ret, opts, lastError, retryLog, slept, nonRetryVars>>

InitRetry ==
    /\ rpc = "idle"
    /\ opts = [DefaultRetryOptions @@ [hasOnRetry |-> FALSE, operation |-> "any"]
                  EXCEPT !.maxRetries = 0]
    /\ attempt = 0
    /\ lastError = NoError
    /\ calls = <<>>
    /\ retryLog = <<>>
    /\ slept = <<>>
    /\ settled = [how |-> "pending", error |-> NoError, value |-> "none"]

NextRetry ==
    \/ \E o \in RetryOptions : WithRetryCall(o)
    \/ \E v \in Values : OperationResolve(v)
    \/ \E s \in ErrorShapes, j \in Jitters : OperationReject(s, j)
    \/ SleepDone

\* ================================================================= backoff
\* The instants at which the backoff model observes the clock (ms).
BackoffTimes == {0, 2000, 2001, 32000}
NoState == [lastError |-> Undefined, consecutiveErrors |-> 0, backoffUntil |-> Undefined]

\* The map after getAccountRateLimitState(accountId): a missing state is created.
WithState(m, accountId) ==
    IF accountId \in DOMAIN m THEN m ELSE m @@ (accountId :> NoState)

GetAccountRateLimitState(accountId) ==
    /\ accountRateLimitState' = WithState(accountRateLimitState, accountId)
    /\ ret' = [op |-> "getAccountRateLimitState", key |-> accountId,
               value |-> WithState(accountRateLimitState, accountId)[accountId]]
    /\ UNCHANGED <<now, failures, nonBackoffVars>>

\* A mutant of the backoff delay that forgets the maxDelayMs cap.
BackoffMsUncapped(consecutiveErrors) ==
    DefaultRetryOptions.initialDelayMs * Pow(2, consecutiveErrors)

\* A mutant of the backoff delay whose first step is initialDelayMs.
BackoffMsFromInitial(consecutiveErrors) ==
    Min(DefaultRetryOptions.initialDelayMs * Pow(2, consecutiveErrors - 1),
        DefaultRetryOptions.maxDelayMs)

\* The delay recordRateLimitError computes from the error count.
BackoffMs(consecutiveErrors) ==
    Min(DefaultRetryOptions.initialDelayMs * Pow(2, consecutiveErrors),
        DefaultRetryOptions.maxDelayMs)

\* A mutant of recordSuccessfulRequest that leaves backoffUntil in place.
SuccessResetCountOnly(m, accountId) ==
    IF accountId \in DOMAIN m
    THEN [m EXCEPT ![accountId] = [@ EXCEPT !.consecutiveErrors = 0]]
    ELSE m

\* A mutant of recordSuccessfulRequest that resets every account.
SuccessResetAll(m, accountId) ==
    [a \in DOMAIN m |-> [m[a] EXCEPT !.consecutiveErrors = 0, !.backoffUntil = Undefined]]

\* The map after recordSuccessfulRequest(accountId).
SuccessReset(m, accountId) ==
    IF accountId \in DOMAIN m
    THEN [m EXCEPT ![accountId] = [@ EXCEPT !.consecutiveErrors = 0,
                                            !.backoffUntil = Undefined]]
    ELSE m

RecordRateLimitError(accountId) ==
    LET m == WithState(accountRateLimitState, accountId)
        n == m[accountId].consecutiveErrors + 1
    IN
    /\ n <= MaxErrors
    /\ accountRateLimitState' =
           [m EXCEPT ![accountId] = [lastError |-> now, consecutiveErrors |-> n,
                                     backoffUntil |-> now + BackoffMs(n)]]
    /\ failures' = [failures EXCEPT ![accountId] = @ + 1]
    /\ ret' = [op |-> "recordRateLimitError", key |-> accountId]
    /\ UNCHANGED <<now, nonBackoffVars>>

RecordSuccessfulRequest(accountId) ==
    /\ accountRateLimitState' = SuccessReset(accountRateLimitState, accountId)
    /\ failures' = [failures EXCEPT ![accountId] = 0]
    /\ ret' = [op |-> "recordSuccessfulRequest", key |-> accountId]
    /\ UNCHANGED <<now, nonBackoffVars>>

\* A mutant of isAccountInBackoff that still holds at backoffUntil itself.
InBackoffAtDeadline(accountId) ==
    IF accountId \notin DOMAIN accountRateLimitState THEN FALSE
    ELSE IF accountRateLimitState[accountId].backoffUntil = Undefined THEN FALSE
    ELSE now <= accountRateLimitState[accountId].backoffUntil

\* The value isAccountInBackoff(accountId) returns.
InBackoff(accountId) ==
    IF accountId \notin DOMAIN accountRateLimitState THEN FALSE
    ELSE IF accountRateLimitState[accountId].backoffUntil = Undefined THEN FALSE
    ELSE now < accountRateLimitState[accountId].backoffUntil

\* The value getBackoffRemainingMs(accountId) returns.
BackoffRemainingMs(accountId) ==
    IF accountId \notin DOMAIN accountRateLimitState THEN 0
    ELSE IF accountRateLimitState[accountId].backoffUntil = Undefined THEN 0
    ELSE Max(0, accountRateLimitState[accountId].backoffUntil - now)

IsAccountInBackoff(accountId) ==
    /\ ret' = [op |-> "isAccountInBackoff", key |-> accountId,
               value |-> InBackoff(accountId)]
    /\ UNCHANGED <<now, backoffVars, nonBackoffVars>>

GetBackoffRemainingMs(accountId) ==
    /\ ret' = [op |-> "getBackoffRemainingMs", key |-> accountId,
               value |-> BackoffRemainingMs(accountId)]
    /\ UNCHANGED <<now, backoffVars, nonBackoffVars>>

ClearRateLimitState ==
    /\ accountRateLimitState' = <<>>
    /\ failures' = [a \in Accounts |-> 0]
    /\ ret' = [op |-> "clearRateLimitState"]
    /\ UNCHANGED <<now, nonBackoffVars>>

BackoffTick(t) ==
    /\ t > now
    /\ now' = t
    /\ UNCHANGED <<ret, backoffVars, nonBackoffVars>>

InitBackoff ==
    /\ accountRateLimitState = <<>>
    /\ failures = [a \in Accounts |-> 0]

NextBackoff ==
    \/ \E a \in Accounts : GetAccountRateLimitState(a)
    \/ \E a \in Accounts : RecordRateLimitError(a)
    \/ \E a \in Accounts : RecordSuccessfulRequest(a)
    \/ \E a \in Accounts : IsAccountInBackoff(a)
    \/ \E a \in Accounts : GetBackoffRemainingMs(a)
    \/ ClearRateLimitState
    \/ \E t \in BackoffTimes : BackoffTick(t)

\* ============================================================ tool handlers
\* OAuth scope URLs, by their last component.
Scopes == {"gmail.readonly", "gmail.compose", "gmail.modify", "gmail.labels",
           "gmail.settings.basic"}

\* The account store: the scopes granted to each stored account.
StoredAccounts ==
    [u1 |-> {"gmail.readonly", "gmail.compose"},
     u2 |-> {"gmail.readonly"},
     u3 |-> {"gmail.readonly", "gmail.settings.basic"}]
\* Account ids a request may carry; u0 is not in the store.
RequestAccounts == {"u0", "u1", "u2", "u3"}
\* An optional boolean argument.
Flags == {"true", "false", "undefined"}

GetScopeTier(scopes) ==
    LET hasModify == "gmail.modify" \in scopes
        hasLabels == "gmail.labels" \in scopes
        hasCompose == "gmail.compose" \in scopes
        hasSettings == "gmail.settings.basic" \in scopes
    IN  IF (hasModify \/ hasLabels) /\ hasSettings THEN "all"
        ELSE IF hasModify \/ hasLabels THEN "full"
        ELSE IF hasSettings THEN "settings"
        ELSE IF hasCompose THEN "compose"
        ELSE "readonly"

\* Index of a tier in linearTiers (indexOf, so -1 when absent).
LinearTierIndex(tier) ==
    CASE tier = "readonly" -> 0
      [] tier = "compose" -> 1
      [] tier = "full" -> 2
      [] OTHER -> -1

HasSufficientScope(accountScopes, requiredTier) ==
    LET accountTier == GetScopeTier(accountScopes) IN
    IF accountTier = "all" THEN TRUE
    ELSE IF requiredTier = "all" THEN FALSE
    ELSE IF accountTier = requiredTier THEN TRUE
    ELSE IF requiredTier = "readonly" THEN TRUE
    ELSE IF requiredTier = "settings" THEN accountTier = "settings"
    ELSE IF accountTier = "settings" THEN FALSE
    ELSE LinearTierIndex(accountTier) >= LinearTierIndex(requiredTier)

\* validateAccountScope: the code of the error it returns, or "ok".
ValidateAccountScope(accountId, requiredTier) ==
    IF accountId \notin DOMAIN StoredAccounts THEN "ACCOUNT_NOT_FOUND"
    ELSE IF ~HasSufficientScope(StoredAccounts[accountId], requiredTier)
    THEN "SCOPE_INSUFFICIENT"
    ELSE "ok"

NoTool == [name |-> "none", awaiting |-> "none", accountId |-> "",
           sendImmediately |-> "undefined", confirm |-> "undefined", draftId |-> 0]
ErrorResponse(name, code) == [op |-> name, isError |-> TRUE, code |-> code, draftId |-> 0]
SuccessResponse(name, message, draftId) ==
    [op |-> name, isError |-> FALSE, code |-> message, draftId |-> draftId]

\* A mutant of the safety gate that lets every request through.
ConfirmMissingNever(confirm) == FALSE

\* The safety gate: args.confirm !== true.
ConfirmMissing(confirm) == confirm # "true"

\* The gmail_send_draft handler up to its await of client.sendDraft.
SendDraftTool(accountId, draftId, confirm) ==
    LET validation == ValidateAccountScope(accountId, "compose") IN
    /\ tool = NoTool
    /\ IF validation # "ok"
       THEN /\ ret' = ErrorResponse("gmail_send_draft", validation)
            /\ tool' = tool
       ELSE IF ConfirmMissing(confirm)
       THEN /\ ret' = ErrorResponse("gmail_send_draft", "CONFIRMATION_REQUIRED")
            /\ tool' = tool
       ELSE /\ ret' = [op |-> "gmail_send_draft.await"]
            /\ tool' = [name |-> "gmail_send_draft", awaiting |-> "sendDraft",
                        accountId |-> accountId, sendImmediately |-> "undefined",
                        confirm |-> confirm, draftId |-> draftId]
    /\ UNCHANGED <<now, gmailDrafts, lastDraftId, gmailSent, nonServerVars>>

\* The gmail_reply_in_thread handler up to its await of client.replyToThread.
ReplyInThreadTool(accountId, sendImmediately, confirm) ==
    LET validation == ValidateAccountScope(accountId, "compose") IN
    /\ tool = NoTool
    /\ IF validation # "ok"
       THEN /\ ret' = ErrorResponse("gmail_reply_in_thread", validation)
            /\ tool' = tool
       ELSE /\ ret' = [op |-> "gmail_reply_in_thread.await"]
            /\ tool' = [name |-> "gmail_reply_in_thread", awaiting |-> "replyToThread",
                        accountId |-> accountId, sendImmediately |-> sendImmediately,
                        confirm |-> confirm, draftId |-> 0]
    /\ UNCHANGED <<now, gmailDrafts, lastDraftId, gmailSent, nonServerVars>>

\* client.replyToThread resolved: Gmail created the draft.  The handler then
\* returns the draft, or the confirmation error, or goes on to send it.
ReplyToThreadResolve ==
    LET id == lastDraftId + 1 IN
    /\ tool.awaiting = "replyToThread"
    /\ id <= MaxDrafts
    /\ gmailDrafts' = gmailDrafts \cup {id}
    /\ lastDraftId' = id
    /\ IF tool.sendImmediately = "true"
       THEN IF ConfirmMissing(tool.confirm)
            THEN /\ ret' = [ErrorResponse(tool.name, "CONFIRMATION_REQUIRED")
                               EXCEPT !.draftId = id]
                 /\ tool' = NoTool
            ELSE /\ ret' = [op |-> "gmail_reply_in_thread.await"]
                 /\ tool' = [tool EXCEPT !.awaiting = "sendDraft", !.draftId = id]
       ELSE /\ ret' = SuccessResponse(tool.name, "Reply draft created", id)
            /\ tool' = NoTool
    /\ UNCHANGED <<now, gmailSent, nonServerVars>>

\* client.sendDraft resolved: Gmail sent the draft, which exists no longer.
SendDraftResolve ==
    /\ tool.awaiting = "sendDraft"
    /\ tool.draftId \in gmailDrafts
    /\ gmailDrafts' = gmailDrafts \ {tool.draftId}
    /\ gmailSent' = Append(gmailSent, [draftId |-> tool.draftId, tool |-> tool.name,
                                       confirm |-> tool.confirm])
    /\ ret' = SuccessResponse(tool.name,
                              IF tool.name = "gmail_send_draft"
                              THEN "Email sent successfully"
                              ELSE "Reply sent successfully", tool.draftId)
    /\ tool' = NoTool
    /\ UNCHANGED <<now, lastDraftId, nonServerVars>>

\* The awaited GmailClient call rejected (no such draft, no token, a failed
\* request): the handler returns errorResponse(toMcpError(error)).
GmailReject ==
    /\ tool.awaiting # "none"
    /\ ret' = ErrorResponse(tool.name, "GMAIL_API_ERROR")
    /\ tool' = NoTool
    /\ UNCHANGED <<now, gmailDrafts, lastDraftId, gmailSent, nonServerVars>>

InitServer ==
    /\ tool = NoTool
    /\ gmailDrafts = {}
    /\ lastDraftId = 0
    /\ gmailSent = <<>>

NextServer ==
    \/ \E a \in RequestAccounts, d \in 1..MaxDrafts, c \in Flags \ {"undefined"} :
           SendDraftTool(a, d, c)
    \/ \E a \in RequestAccounts, s \in Flags, c \in Flags : ReplyInThreadTool(a, s, c)
    \/ ReplyToThreadResolve
    \/ SendDraftResolve
    \/ GmailReject

\* ============================================================= GmailClient
\* Accounts a GmailClient is constructed for, and message ids it is given.
ClientAccounts == {"u1", "u2"}
ClientMessageIds == {"m1", "m2"}

NoCall == [method |-> "none", accountId |-> "", messageId |-> ""]

\* A GmailClient method up to its await of the Gmail API: after getGmail() it
\* sends the request, and calls nothing else on the way.
ClientCall(method, api, accountId, messageId) ==
    /\ client = NoCall
    /\ Len(gmailRequests) < MaxRequests
    /\ client' = [method |-> method, accountId |-> accountId, messageId |-> messageId]
    /\ gmailRequests' = Append(gmailRequests,
           [api |-> api, accountId |-> accountId, messageId |-> messageId])
    /\ UNCHANGED <<now, ret, nonClientVars>>

\* getMessage: gmail.users.messages.get.
GetMessage(accountId, messageId) ==
    ClientCall("getMessage", "users.messages.get", accountId, messageId)

\* modifyLabels: gmail.users.messages.modify.
ModifyLabels(accountId, messageId) ==
    ClientCall("modifyLabels", "users.messages.modify", accountId, messageId)

\* The Gmail API answered: the method returns the converted message.
ApiResolve ==
    /\ client # NoCall
    /\ ret' = [op |-> client.method, key |-> client.accountId,
               value |-> client.messageId]
    /\ client' = NoCall
    /\ UNCHANGED <<now, gmailRequests, nonClientVars>>

\* The Gmail API failed: the method rejects with the error.
ApiReject ==
    /\ client # NoCall
    /\ ret' = [op |-> client.method, key |-> client.accountId,
               value |-> "error"]
    /\ client' = NoCall
    /\ UNCHANGED <<now, gmailRequests, nonClientVars>>

InitClient ==
    /\ client = NoCall
    /\ gmailRequests = <<>>

NextClient ==
    \/ \E a \in ClientAccounts, m \in ClientMessageIds : GetMessage(a, m)
    \/ \E a \in ClientAccounts, m \in ClientMessageIds : ModifyLabels(a, m)
    \/ ApiResolve
    \/ ApiReject

\* ============================================================ specifications
DefaultThrottleConfig == [tokensPerSecond |-> 250, bucketSize |-> 250]

InitOfThrottle ==
    /\ now = 0
    /\ ret = NoRet
    /\ InitThrottle(ThrottleConfigs)
    /\ InitCache({DefaultCacheConfig})
    /\ InitRetry
    /\ InitBackoff
    /\ InitServer
    /\ InitClient

InitOfCache ==
    /\ now = 0
    /\ ret = NoRet
    /\ InitThrottle({DefaultThrottleConfig})
    /\ InitCache(CacheConfigs)
    /\ InitRetry
    /\ InitBackoff
    /\ InitServer
    /\ InitClient

SpecThrottle == InitOfThrottle /\ [][NextThrottle]_vars

SpecWaiters == InitOfThrottle /\ [][NextWaiters]_vars

InitOfWait ==
    /\ now = 0
    /\ ret = NoRet
    /\ InitThrottle(WaitConfigs)
    /\ InitCache({DefaultCacheConfig})
    /\ InitRetry
    /\ InitBackoff
    /\ InitServer
    /\ InitClient

SpecWait == InitOfWait /\ [][NextWait]_vars

InitOfDrain ==
    /\ now = 0
    /\ ret = NoRet
    /\ InitThrottle(DrainConfigs)
    /\ InitCache({DefaultCacheConfig})
    /\ InitRetry
    /\ InitBackoff
    /\ InitServer
    /\ InitClient

SpecDrain == InitOfDrain /\ [][NextDrain]_vars

SpecCache == InitOfCache /\ [][NextCache]_vars

InitOfStats ==
    /\ now = 0
    /\ ret = NoRet
    /\ InitThrottle({DefaultThrottleConfig})
    /\ InitCache(StatsConfigs)
    /\ InitRetry
    /\ InitBackoff
    /\ InitServer
    /\ InitClient

SpecStats == InitOfStats /\ [][NextStats]_vars

SpecWithCache == InitOfCache /\ [][NextWithCache]_vars

SpecInvalidate == InitOfCache /\ [][NextInvalidate]_vars

InitOfRest ==
    /\ now = 0
    /\ ret = NoRet
    /\ InitThrottle({DefaultThrottleConfig})
    /\ InitCache({DefaultCacheConfig})
    /\ InitRetry
    /\ InitBackoff
    /\ InitServer
    /\ InitClient

SpecRetry == InitOfRest /\ [][NextRetry]_vars

SpecBackoff == InitOfRest /\ [][NextBackoff]_vars

SpecMakeKey == InitOfRest /\ [][NextMakeKey]_vars

SpecServer == InitOfRest /\ [][NextServer]_vars

SpecClient == InitOfRest /\ [][NextClient]_vars

Init ==
    /\ now = 0
    /\ ret = NoRet
    /\ InitThrottle(ThrottleConfigs \cup WaitConfigs \cup DrainConfigs)
    /\ InitCache(CacheConfigs \cup StatsConfigs)
    /\ InitRetry
    /\ InitBackoff
    /\ InitServer
    /\ InitClient

Next ==
    \/ NextThrottle \/ NextWaiters \/ NextWait \/ NextDrain
    \/ NextCache \/ NextStats \/ NextWithCache \/ NextInvalidate \/ NextMakeKey
    \/ NextRetry \/ NextBackoff \/ NextServer \/ NextClient

Spec == Init /\ [][Next]_vars

\* C1: for every account key, after any sequence of tryConsume calls and
\* clock advances, the level getTokenCount reads is never above the
\* configured bucketSize and never negative; a getTokenCount call returns
\* such a level.
TokenLevelWithinCapacity ==
    /\ \A a \in Accounts :
          /\ ~Refilled(a).tokens.neg
          /\ GeqDouble(ToDouble(config.bucketSize), Refilled(a).tokens)
    /\ ret.op = "getTokenCount" =>
          /\ ~ret.value.neg
          /\ GeqDouble(ToDouble(config.bucketSize), ret.value)

\* A bucket that was drained and then left idle long enough to overfill, read
\* by getTokenCount at exactly its capacity.
TokenLevelWitness ==
    /\ ret.op = "getTokenCount"
    /\ ret.value = ToDouble(config.bucketSize)
    /\ now >= 750
    /\ \E a \in DOMAIN buckets : buckets[a].tokens = Zero

\* C2: after any sequence of set, get, getWithMeta, delete, invalidatePattern
\* and clear on a cache with maxSize >= 1, the number of stored entries never
\* exceeds maxSize.
CacheSizeBounded == Len(cache) <= cacheConfig.maxSize

\* A set on a full cache has evicted an entry and left the cache full.
CacheSizeWitness ==
    /\ ret.op = "set"
    /\ stats.evictions = 1
    /\ cacheConfig.maxSize = 2
    /\ Len(cache) = 2

\* C3: when set inserts a key that is not stored into a cache holding maxSize
\* entries, exactly one entry is evicted, the stored key whose most recent
\* access (a set of it, or a lookup that hit it) is the oldest, and every
\* other stored entry is retained as it was.
EvictsLeastRecentlyUsed ==
    [][\A k \in Keys, v \in SetValues, t \in TtlArgs :
          (/\ CacheSet(k, v, t)
           /\ ~Has(cache, k)
           /\ Len(cache) = cacheConfig.maxSize
           /\ ~hung')
          => LET victim == recency[1] IN
             /\ CacheKeys(cache') = (CacheKeys(cache) \ {victim}) \cup {k}
             /\ \A j \in CacheKeys(cache) \ {victim} :
                    Entry(cache', j) = Entry(cache, j)
             /\ stats'.evictions = stats.evictions + 1
             /\ cache'[Len(cache')].key = k]_vars

\* The cache was filled with k0 then k1, k0 was read, and the set of a third
\* key evicted k1: k0, the older insertion, is still stored.
EvictsLeastRecentlyUsedWitness ==
    /\ ret.op = "set"
    /\ ret.key = ""
    /\ stats.evictions = 1
    /\ CacheKeys(cache) = {"k0", ""}
    /\ recency = <<"k0", "">>
    /\ Entry(cache, "k0").createdAt < Entry(cache, "").createdAt

\* C4: an entry stored by set(key, v, ttl) at time t and not since removed or
\* overwritten expires at t + ttl; get(key) at time now returns that entry
\* when now <= t + ttl, and when now > t + ttl returns undefined, removes the
\* entry and counts a miss.
ExpiryBoundary ==
    /\ [](\A k \in CacheKeys(cache) :
             Entry(cache, k).expiresAt = lastSet[k].at + lastSet[k].ttl)
    /\ [][\A k \in Keys :
             (CacheGet(k) /\ Has(cache, k))
             => IF now <= lastSet[k].at + lastSet[k].ttl
                THEN /\ ret'.hit
                     /\ ret'.value = lastSet[k].value
                     /\ ret'.expiresAt = lastSet[k].at + lastSet[k].ttl
                     /\ Has(cache', k)
                     /\ stats'.misses = stats.misses
                ELSE /\ ~ret'.hit
                     /\ ~Has(cache', k)
                     /\ stats'.misses = stats.misses + 1]_vars

\* An entry set with ttl 1000 was looked up 1001 ms later: the lookup missed,
\* removed it and counted the miss.
ExpiryBoundaryWitness ==
    /\ ret.op = "get"
    /\ ~ret.hit
    /\ ret.why = "expired"
    /\ now = 1001
    /\ stats.misses = 1
    /\ ~Has(cache, ret.key)

\* C10: a withCache(key, op) call made after an earlier withCache call for the
\* same key completed with a miss, while the entry that call stored is within
\* its TTL and was neither evicted, invalidated nor overwritten, does not
\* invoke op and returns cacheHit true with the value the first call returned;
\* the first call returned that value with cacheHit false.
WithCacheIdempotent ==
    /\ [][\A f \in Fetchers, k \in FetchKeys, t \in TtlArgs :
             (/\ WithCacheCall(f, k, t)
              /\ fetched[k] # NotFetched
              /\ now <= lastSet[k].at + lastSet[k].ttl)
             => /\ ret'.op = "withCache"
                /\ ret'.cacheHit
                /\ ret'.value = fetched[k]
                /\ fetching' = fetching]_vars
    /\ [][\A f \in Fetchers, v \in Values :
             (WithCacheResolve(f, v) /\ ~hung')
             => /\ ret'.op = "withCache"
                /\ ~ret'.cacheHit
                /\ ret'.value = v
                /\ fetched'[ret'.key] = v]_vars

\* The second of two withCache calls for k0 returned the first call's value as
\* a hit, 1000 ms into the entry's 1000 ms TTL.
WithCacheIdempotentWitness ==
    /\ ret.op = "withCache"
    /\ ret.key = "k0"
    /\ ret.cacheHit
    /\ fetched["k0"] = ret.value
    /\ lastSet["k0"] = [at |-> 0, ttl |-> 1000, value |-> ret.value]
    /\ now = 1000
    /\ stats.hits = 1

\* The parts a key was built from.
PartsOf(key) == CHOOSE p \in KeyParts : KeyOf(p) = key

\* C11: invalidateForMessageModification(acct, msgId) called with a message id
\* removes every key of that account in the search, labels and thread
\* namespaces and every message key that references msgId, and leaves in the
\* cache every other key of that account and every key of every other account.
MessageModificationScope ==
    [][\A a \in PatternAccounts, m \in MessageIds \ {""} :
          InvalidateForMessageModification(a, m)
          => \A k \in CacheKeys(cache) :
                 LET p == PartsOf(k)
                     inScope == /\ p.accountId = a
                                /\ \/ p.method \in {"search", "labels", "thread"}
                                   \/ p.method = "message" /\ p.rest = m
                 IN  Has(cache', k) <=> ~inScope]_vars

\* C12: for every pair of distinct account ids A and B, invalidateAccount(A)
\* removes every cached key that begins with "A:" and removes no key that
\* belongs to account B.
InvalidateAccountScope ==
    [][\A a \in PatternAccounts :
          InvalidateAccount(a)
          => \A k \in CacheKeys(cache) :
                 /\ PartsOf(k).accountId = a => ~Has(cache', k)
                 /\ PartsOf(k).accountId # a => Has(cache', k)]_vars

\* The content of a value, whatever the order of its properties.
RECURSIVE Content(_)
Content(value) ==
    [kind |-> value.kind, n |-> value.n,
     members |-> {[name |-> value.props[i].name, value |-> Content(value.props[i].value)] :
                     i \in 1..Len(value.props)}]

\* C13: for every account id, operation name and parameter object, makeKey
\* returns the same key whatever the order in which the properties of the
\* parameter object were supplied.
KeyIgnoresOrder ==
    ret.op = "makeKey"
    => \A q \in ParamArgs :
           Content(q) = Content(ret.params)
           => MakeKey(ret.accountId, ret.method, q) = ret.value

\* makeKey was given {b: 2, a: 1} and returned the key of {a: 1, b: 2}.
KeyIgnoresOrderWitness ==
    /\ ret.op = "makeKey"
    /\ ret.params = Obj(<<Prop("b", Num(2)), Prop("a", Num(1))>>)
    /\ ret.value = "a1:search:{\"a\":1,\"b\":2}"
    /\ ret.value = MakeKey("a1", "search", Obj(<<Prop("a", Num(1)), Prop("b", Num(2))>>))

\* C14: makeKey returns different keys for any two calls that differ in account
\* id, in operation name, or in the content of the parameter object.
KeysDistinguishRequests ==
    ret.op = "makeKey"
    => \A a \in KeyAccounts, m \in Methods, q \in ParamArgs :
           (a # ret.accountId \/ m # ret.method \/ Content(q) # Content(ret.params))
           => MakeKey(a, m, q) # ret.value

\* Every drafts.send call Gmail performed came from a request with confirm true.
SentOnlyConfirmed == \A i \in 1..Len(gmailSent) : gmailSent[i].confirm = "true"

\* gmail_reply_in_thread with sendImmediately and without confirm, once its
\* draft is created, returns the confirmation error and does not send.
ReplyNotSentUnconfirmed ==
    (/\ ReplyToThreadResolve
     /\ tool.sendImmediately = "true"
     /\ tool.confirm # "true")
    => /\ gmailDrafts' = gmailDrafts \cup {lastDraftId'}
       /\ lastDraftId' \notin gmailDrafts
       /\ gmailSent' = gmailSent
       /\ tool' = NoTool
       /\ ret' = [ErrorResponse("gmail_reply_in_thread", "CONFIRMATION_REQUIRED")
                     EXCEPT !.draftId = lastDraftId']

\* C15: in every execution of the gmail_send_draft and gmail_reply_in_thread
\* handlers, GmailClient.sendDraft is performed only if the request carried
\* confirm === true; without it gmail_send_draft sends nothing and returns a
\* confirmation-required error, and gmail_reply_in_thread with sendImmediately
\* creates the draft but does not send it.
SendRequiresConfirm ==
    /\ []SentOnlyConfirmed
    /\ [][\A a \in RequestAccounts, d \in 1..MaxDrafts, c \in Flags :
             (SendDraftTool(a, d, c) /\ c # "true")
             => /\ UNCHANGED <<tool, gmailDrafts, gmailSent>>
                /\ ret' = ErrorResponse("gmail_send_draft", "CONFIRMATION_REQUIRED")]_vars
    /\ [][ReplyNotSentUnconfirmed]_vars

\* C15, amended: as C15, except that gmail_send_draft without confirm returns
\* the confirmation-required error only for an account that passes
\* validateAccountScope; for any other account it returns the validation
\* error, and sends nothing either.
SendRequiresConfirmValidated ==
    /\ []SentOnlyConfirmed
    /\ [][\A a \in RequestAccounts, d \in 1..MaxDrafts, c \in Flags :
             (SendDraftTool(a, d, c) /\ c # "true")
             => /\ UNCHANGED <<tool, gmailDrafts, gmailSent>>
                /\ ret' = ErrorResponse("gmail_send_draft",
                                        IF ValidateAccountScope(a, "compose") = "ok"
                                        THEN "CONFIRMATION_REQUIRED"
                                        ELSE ValidateAccountScope(a, "compose"))]_vars
    /\ [][ReplyNotSentUnconfirmed]_vars

\* After a confirmed send, a gmail_send_draft request without confirm for a
\* draft that exists was refused with the confirmation error.
SendRequiresConfirmWitness ==
    /\ ret = ErrorResponse("gmail_send_draft", "CONFIRMATION_REQUIRED")
    /\ Len(gmailSent) = 1
    /\ gmailDrafts # {}
    /\ tool = NoTool

\* C5: if every attempt fails with an error whose status code is retryable,
\* withRetry (maxRetries >= 0) invokes the operation exactly maxRetries + 1
\* times and then rejects with the last error; it never rejects with a
\* retryable error before maxRetries + 1 attempts were made.
AllFailedRetryable ==
    \A i \in 1..Len(calls) :
        /\ calls[i].outcome # "resolved"
        /\ calls[i].outcome = "rejected"
              => IsRetryable(calls[i].error, opts.retryableStatusCodes)

RetryExhaustion ==
    /\ (opts.maxRetries >= 0 /\ AllFailedRetryable)
          => /\ Len(calls) <= opts.maxRetries + 1
             /\ rpc = "rejected"
                   => /\ Len(calls) = opts.maxRetries + 1
                      /\ settled.error = calls[Len(calls)].error
    /\ (rpc = "rejected" /\ Len(calls) >= 1
          /\ IsRetryable(settled.error, opts.retryableStatusCodes))
          => Len(calls) = opts.maxRetries + 1

\* An operation that always fails with 503 was invoked three times under
\* maxRetries = 2 before withRetry rejected.
RetryExhaustionWitness ==
    /\ rpc = "rejected"
    /\ opts.operation = "always503"
    /\ opts.maxRetries = 2
    /\ Len(calls) = 3
    /\ Len(slept) = 2

\* C6: a failure that has no status code, or one outside retryableStatusCodes,
\* makes withRetry reject with it at once, with no further invocation, onRetry
\* call or delay; so an operation that always fails with status 400 is invoked
\* exactly once whatever maxRetries is.
NonRetryableOnce ==
    /\ \A i \in 1..Len(calls) :
          (/\ calls[i].outcome = "rejected"
           /\ ~IsRetryable(calls[i].error, opts.retryableStatusCodes))
          => /\ i = Len(calls)
             /\ rpc = "rejected"
             /\ settled.error = calls[i].error
             /\ Len(slept) = i - 1
             /\ Len(retryLog) \in {0, i - 1}
    /\ (rpc = "rejected" /\ opts.operation = "always400") => Len(calls) = 1

\* C7: for every options configuration and every sequence of attempt outcomes,
\* whenever withRetry rejects, it rejects with the very value the most recent
\* attempt of the operation threw.
RejectsWithLastThrown ==
    rpc = "rejected"
    => /\ Len(calls) >= 1
       /\ calls[Len(calls)].outcome = "rejected"
       /\ settled.error = calls[Len(calls)].error

\* The rate-limit state an account has, created or not.
StateOf(accountId) == WithState(accountRateLimitState, accountId)[accountId]

\* C8: recordRateLimitError(A) and recordSuccessfulRequest(A) leave the
\* lastError, consecutiveErrors and backoffUntil of every other account
\* unchanged, and each account's consecutiveErrors is the number of failures
\* recorded for it since its last recorded success or clearRateLimitState.
AccountIsolation ==
    /\ [](\A a \in Accounts : StateOf(a).consecutiveErrors = failures[a])
    /\ [][\A a \in Accounts :
             (RecordRateLimitError(a) \/ RecordSuccessfulRequest(a))
             => \A b \in Accounts \ {a} : StateOf(b)' = StateOf(b)]_vars

\* Two failures were recorded on A and one on B, the last of them on A.
AccountIsolationWitness ==
    /\ ret = [op |-> "recordRateLimitError", key |-> "A"]
    /\ StateOf("A").consecutiveErrors = 2
    /\ StateOf("B").consecutiveErrors = 1

\* C9: with the clock held fixed since the previous failure, each further
\* recordRateLimitError(a) makes getBackoffRemainingMs(a) strictly larger
\* until it has reached the maxDelayMs cap of 32000 ms, and leaves it equal to
\* the cap from then on.
BackoffGrowsToCap ==
    [][\A a \in Accounts :
          (/\ RecordRateLimitError(a)
           /\ failures[a] = 0 \/ StateOf(a).lastError = now)
          => /\ BackoffRemainingMs(a) < DefaultRetryOptions.maxDelayMs
                   => BackoffRemainingMs(a)' > BackoffRemainingMs(a)
             /\ BackoffRemainingMs(a) = DefaultRetryOptions.maxDelayMs
                   => BackoffRemainingMs(a)' = DefaultRetryOptions.maxDelayMs
             /\ BackoffRemainingMs(a)' <= DefaultRetryOptions.maxDelayMs]_vars

\* Six failures in a row at one instant: the fifth reached the cap and the
\* sixth stayed on it.
BackoffGrowsToCapWitness ==
    /\ ret = [op |-> "recordRateLimitError", key |-> "A"]
    /\ failures["A"] = 6
    /\ StateOf("A").lastError = now
    /\ BackoffRemainingMs("A") = DefaultRetryOptions.maxDelayMs

\* C18: after recordSuccessfulRequest(a), whatever number of failures was
\* recorded before, account a has consecutiveErrors = 0 and no backoffUntil, so
\* isAccountInBackoff(a) is false and getBackoffRemainingMs(a) is 0, and the
\* next recordRateLimitError(a) starts again from the first backoff step.
SuccessClearsBackoff ==
    /\ [][\A a \in Accounts :
             RecordSuccessfulRequest(a)
             => /\ StateOf(a)'.consecutiveErrors = 0
                /\ StateOf(a)'.backoffUntil = Undefined
                /\ ~InBackoff(a)'
                /\ BackoffRemainingMs(a)' = 0]_vars
    /\ [][\A a \in Accounts :
             (RecordRateLimitError(a) /\ failures[a] = 0)
             => /\ StateOf(a)'.consecutiveErrors = 1
                /\ BackoffRemainingMs(a)' = 2 * DefaultRetryOptions.initialDelayMs]_vars

\* A success was recorded on A while the backoff of its failures was still
\* running: A is out of backoff.
SuccessClearsBackoffWitness ==
    /\ ret = [op |-> "recordSuccessfulRequest", key |-> "A"]
    /\ StateOf("A").lastError # Undefined
    /\ now < StateOf("A").lastError + 2 * DefaultRetryOptions.initialDelayMs
    /\ ~InBackoff("A")

\* C19: in every reachable state and at every clock value, isAccountInBackoff(a)
\* is true exactly when backoffUntil is set and strictly later than now, which
\* is exactly when getBackoffRemainingMs(a) > 0; if no further failure is
\* recorded, it becomes false once the clock reaches backoffUntil and stays
\* false.
BackoffWhileInFuture ==
    /\ [](\A a \in Accounts :
             /\ InBackoff(a) <=> /\ StateOf(a).backoffUntil # Undefined
                                 /\ StateOf(a).backoffUntil > now
             /\ InBackoff(a) <=> BackoffRemainingMs(a) > 0)
    /\ [][\A a \in Accounts :
             /\ IsAccountInBackoff(a) => ret'.value = InBackoff(a)
             /\ GetBackoffRemainingMs(a) => ret'.value = BackoffRemainingMs(a)
             /\ (~InBackoff(a) /\ ~RecordRateLimitError(a)) => ~InBackoff(a)']_vars

\* isAccountInBackoff(A) returned false at the very instant backoffUntil.
BackoffWhileInFutureWitness ==
    /\ ret = [op |-> "isAccountInBackoff", key |-> "A", value |-> FALSE]
    /\ StateOf("A").backoffUntil = now

WaitTimeSuffices ==
    [][\A c \in Costs :
          /\ (/\ TryConsumeTracked("A", c)
              /\ promised["A"] = [cost |-> c, at |-> now])
             => ret'.value
          /\ GetWaitTimeTracked("A", c)
             => (ret'.value = 0 <=> GeqDouble(Refilled("A").tokens, c))]_vars

\* The first half of C16 for the costs a full bucket can grant.
WaitTimeSufficesWithinCapacity ==
    [][\A c \in Costs :
          (/\ TryConsumeTracked("A", c)
           /\ promised["A"] = [cost |-> c, at |-> now]
           /\ GeqDouble(ToDouble(config.bucketSize), c))
          => ret'.value]_vars

\* The second half of C16 alone: getWaitTime returns 0 exactly when the
\* refilled bucket holds at least cost tokens.
ZeroWaitWhenAvailable ==
    [][\A c \in Costs :
          GetWaitTimeTracked("A", c)
          => (ret'.value = 0 <=> GeqDouble(Refilled("A").tokens, c))]_vars

\* C17: of the unit-cost tryConsume calls on a fresh bucket with no time
\* passing, exactly bucketSize succeed and the next fails; after the clock then
\* advances by t ms, exactly min(bucketSize, floor(tokensPerSecond * t / 1000))
\* further ones succeed before one fails.
DrainAndRefillCounts ==
    \A a \in Accounts :
        LET d == drain[a]
            further == Min(config.bucketSize,
                           (config.tokensPerSecond * d.elapsed) \div MsPerSecond)
        IN  /\ d.phase = "draining"
               => d.granted <= config.bucketSize
                  /\ (d.denied => d.granted = config.bucketSize)
            /\ d.phase = "refilling"
               => d.granted <= further /\ (d.denied => d.granted = further)

\* The first half of C17 alone: a fresh bucket grants exactly bucketSize
\* unit-cost calls while no time passes.
DrainCount ==
    \A a \in Accounts :
        drain[a].phase = "draining"
        => drain[a].granted <= config.bucketSize
           /\ (drain[a].denied => drain[a].granted = config.bucketSize)

\* The sum of a sequence of numbers.
RECURSIVE SumOf(_)
SumOf(seq) == IF seq = <<>> THEN 0 ELSE Head(seq) + SumOf(Tail(seq))

\* C22: in any withRetry run (maxRetries >= 0, so that the product is a
\* bound), the sum of the delays slept between attempts, which are the delayMs
\* values passed to onRetry, is at most maxRetries * maxDelayMs.
TotalDelayBounded ==
    opts.maxRetries >= 0 => SumOf(slept) <= opts.maxRetries * opts.maxDelayMs

\* withRetry was called and its promise has settled.
RunSettled == rpc \in {"returned", "rejected"}

\* The onRetry calls made so far are one per failed attempt that was followed
\* by a delay, in order, each with that attempt's error, its number and the
\* delay slept.
OnRetryLogged ==
    /\ Len(retryLog) = Len(slept)
    /\ \A i \in 1..Len(retryLog) :
          /\ i <= Len(calls)
          /\ calls[i].outcome = "rejected"
          /\ retryLog[i] = [error |-> calls[i].error, attempt |-> i,
                            delayMs |-> slept[i]]
    /\ rpc = "sleep" => Len(retryLog) = Len(calls)
    /\ rpc = "operation" => Len(retryLog) = Len(calls) - 1

\* C24: in a withRetry run with an onRetry observer, onRetry is called once
\* before each re-attempt, after the failed attempt and before the delay, with
\* that attempt's error and the attempt numbers 1, 2, 3, ...; it is not called
\* after the final failed attempt or a non-retryable error, so when the run has
\* settled the number of onRetry calls is the number of invocations minus one.
OnRetryProtocol ==
    opts.hasOnRetry
    => /\ OnRetryLogged
       /\ RunSettled => Len(retryLog) = Len(calls) - 1

\* C24 for the runs that invoked the operation.
OnRetryProtocolAttempted ==
    (opts.hasOnRetry /\ Len(calls) >= 1)
    => /\ OnRetryLogged
       /\ RunSettled => Len(retryLog) = Len(calls) - 1

\* The first of status, response.status and code that a thrown value has as a
\* number, if any.
FirstStatusField(shape) ==
    LET fields == <<shape.status, shape.responseStatus, shape.code>>
        present == {k \in 1..3 : fields[k] # Undefined}
    IN  IF ~shape.isObject \/ present = {}
        THEN Undefined
        ELSE fields[CHOOSE k \in present : \A j \in present : k <= j]

\* Attempt i failed and withRetry went on to a delay and another attempt.
Retried(i) == i < Len(calls) \/ (i = Len(calls) /\ rpc = "sleep")

\* C25: a failed attempt that is not the last one allowed is retried exactly
\* when the first available of a numeric status, response.status and code is
\* a retryable status code: status 400 with code 429 is not retried, only code
\* 429 or only response.status 503 is retried, and a value with none of the
\* three, or one that is not an object, is not retried.
RetryClassification ==
    \A i \in 1..Len(calls) :
        calls[i].outcome = "rejected"
        => LET shape == calls[i].error.shape
               allowed == i - 1 < opts.maxRetries
               only(present) ==
                   /\ shape.isObject
                   /\ (shape.status # Undefined) = ("status" \in present)
                   /\ (shape.responseStatus # Undefined) = ("response.status" \in present)
                   /\ (shape.code # Undefined) = ("code" \in present)
           IN  /\ Retried(i)
                  <=> /\ allowed
                      /\ FirstStatusField(shape) # Undefined
                      /\ FirstStatusField(shape) \in opts.retryableStatusCodes
               /\ (only({"status", "code"}) /\ shape.status = 400 /\ shape.code = 429)
                  => ~Retried(i)
               /\ (only({"code"}) /\ shape.code = 429) => (Retried(i) <=> allowed)
               /\ (only({"response.status"}) /\ shape.responseStatus = 503)
                  => (Retried(i) <=> allowed)
               /\ (only({}) \/ ~shape.isObject) => ~Retried(i)

\* A run that retried an error carrying only code 429 and then rejected at
\* once with an error of status 400 and code 429 although a retry was left.
RetryClassificationWitness ==
    /\ rpc = "rejected"
    /\ opts.maxRetries = 2
    /\ Len(calls) = 2
    /\ calls[1].error.shape.code = 429 /\ calls[1].error.shape.status = Undefined
    /\ calls[2].error.shape.status = 400 /\ calls[2].error.shape.code = 429

\* C30: for every options configuration, negative maxRetries included, and
\* every sequence of attempt outcomes, withRetry invokes the operation at least
\* once and at most max(1, maxRetries + 1) times, and makes no invocation after
\* an attempt has succeeded: it returns that attempt's result.
InvocationsBounded ==
    /\ Len(calls) <= Max(1, opts.maxRetries + 1)
    /\ RunSettled => Len(calls) >= 1
    /\ \A i \in 1..Len(calls) :
          calls[i].outcome = "resolved"
          => /\ i = Len(calls)
             /\ rpc = "returned"
             /\ settled.how = "resolved"

\* C30 for the runs whose maxRetries is not negative.
InvocationsBoundedCounted ==
    opts.maxRetries >= 0 => InvocationsBounded

\* C21: every request GmailClient sends to the Gmail API for an account is
\* sent after that account's backoff state was consulted (which creates the
\* state) and a token was acquired from that account's bucket (which creates
\* the bucket), as the operation of a withRetry call, and after a lookup in
\* the response cache.
ApiCallsGuarded ==
    [][Len(gmailRequests') > Len(gmailRequests)
       => LET request == gmailRequests'[Len(gmailRequests')] IN
          /\ request.accountId \in DOMAIN accountRateLimitState
          /\ request.accountId \in DOMAIN buckets
          /\ rpc = "operation"
          /\ stats.hits + stats.misses >= 1]_vars

\* C23: for every key, the empty string included, and every reachable state
\* of a cache with maxSize >= 1, set terminates: it has evicted entries from
\* the least-recently-used end, counting one eviction per entry removed, until
\* fewer than maxSize remained, and has stored the new entry at the
\* most-recently-used position.
SetTerminates ==
    [][\A k \in Keys, v \in SetValues, t \in TtlArgs :
          (CacheSet(k, v, t) /\ cacheConfig.maxSize >= 1)
          => /\ ~hung'
             /\ Len(cache') <= cacheConfig.maxSize
             /\ cache'[Len(cache')].key = k
             /\ stats'.evictions - stats.evictions
                    = Len(Remove(cache, k)) + 1 - Len(cache')]_vars

\* C23 for caches in which the empty string is not the oldest key when set
\* has to evict.
SetTerminatesNamedOldest ==
    [][\A k \in Keys, v \in SetValues, t \in TtlArgs :
          (/\ CacheSet(k, v, t)
           /\ cacheConfig.maxSize >= 1
           /\ (Remove(cache, k) # <<>> => Head(Remove(cache, k)).key # ""))
          => /\ ~hung'
             /\ Len(cache') <= cacheConfig.maxSize
             /\ cache'[Len(cache')].key = k
             /\ stats'.evictions - stats.evictions
                    = Len(Remove(cache, k)) + 1 - Len(cache')]_vars

\* C26: when tryConsume(key, cost) finds fewer than cost tokens after the
\* refill it returns false and leaves the bucket exactly at the refilled
\* level; succeeding or failing, it changes the bucket of no other key.
FailedConsumeDeductsNothing ==
    [][\A a \in Accounts, c \in Costs :
          (ret'.op = "tryConsume" /\ ret'.key = a /\ TryConsume(a, c))
          => /\ ~GeqDouble(Refilled(a).tokens, c)
                => /\ ret'.value = FALSE
                   /\ buckets'[a] = Refilled(a)
             /\ GeqDouble(Refilled(a).tokens, c) => ret'.value = TRUE
             /\ \A b \in Accounts \ {a} :
                    /\ b \in DOMAIN buckets' <=> b \in DOMAIN buckets
                    /\ b \in DOMAIN buckets => buckets'[b] = buckets[b]]_vars

\* A tryConsume of one token refused on a bucket that had refilled to half a
\* token and kept it, while another account has a bucket of its own.
FailedConsumeWitness ==
    /\ ret = [op |-> "tryConsume", key |-> "A", value |-> FALSE]
    /\ "A" \in DOMAIN buckets
    /\ buckets["A"] = [tokens |-> DivDouble(One, 2), lastRefill |-> now]
    /\ "B" \in DOMAIN buckets
    /\ buckets["B"].tokens # buckets["A"].tokens

\* C28: for any interleaving of concurrent waitAndConsume callers on one
\* account, the total cost of the calls that have returned by time t after the
\* bucket was created is at most bucketSize + tokensPerSecond * t.
AdmissionRateBounded ==
    \A a \in Accounts :
        admitted[a].since # Undefined
        => admitted[a].total
              <= config.bucketSize * MsPerSecond
                 + config.tokensPerSecond * (now - admitted[a].since)

\* The entries other than `key` that a step removed from the cache.
RemovedBesides(key) ==
    {k \in CacheKeys(cache) \ {key} : ~Has(cache', k)}

\* Whether the lookup that ret' reports returned a live entry.
ReturnedLive == IF ret'.op = "get" THEN ret'.hit ELSE ret'.cacheHit

NoStaleValueServed ==
    [][\A f \in Fetchers, k \in FetchKeys, t \in TtlArgs :
          WithCacheCall(f, k, t) /\ ret'.op = "withCache" /\ ret'.cacheHit
          => k \notin stale]_vars

====
